---------------------------- MODULE Spec2Model ----------------------------
(***************************************************************************)
(* ADI physical parser (src/adi.rs) and ADIF logical interpreter           *)
(* (src/adif.rs) as a state machine.                                       *)
(*                                                                         *)
(* Bytes are integers 0..255.  A parse is a sequence of steps; one action  *)
(* is one iteration of one of the parser's loops, or the straight-line     *)
(* entry part of a function.  Every step is a pure operator on a record    *)
(* that holds the whole parse state, so that a complete parse of some      *)
(* other input can also be computed inside a formula (Run).                *)
(*                                                                         *)
(* The byte source delivers the bytes of its input in reads of a bounded   *)
(* size (read_max) or as large as the BufReader asks for; in SpecIo it may *)
(* also fail with an I/O error after a number of bytes.                    *)
(*                                                                         *)
(* Specifications:                                                         *)
(*   Spec        adi_parse on well-formed files                            *)
(*   SpecField   adi_parse_data_specifier on one data specifier            *)
(*   SpecTrunc   adi_parse on files that end early                         *)
(*   SpecAdif    adif_parse_adi on physical files                          *)
(*   SpecIo      adi_parse on readers that stop early or fail              *)
(*   SpecBytes   adi_parse on a file with one byte to choose               *)
(*   SpecGap     adi_parse on well-formed files, longer reads              *)
(*   SpecMarker  adi_parse on fields named as the end markers              *)
(*   SpecNoText  adi_parse on files with a marker and no header text       *)
(*   SpecTool    the dump tool and the diff tool                           *)
(***************************************************************************)
EXTENDS Integers, Sequences, FiniteSets, TLC

VARIABLES
    aps_source,      \* the BufRead: [data, read_max, pos, filled]
    aps_tokens,      \* next unconsumed tokens
    aps_error,       \* an error was met while reading tokens
    aps_done,        \* the end-of-file token has been read
    pc,              \* the function (loop) the parse is in
    ret,             \* who called adi_parse_data_specifier
    lab_ret,         \* who called adi_parse_consume_until_lab
    header,          \* adi_parse's "header" (Option<AdiHeader>)
    header_content,  \* adi_parse_header's local
    header_fields,   \* adi_parse_header's local
    records,         \* adi_parse_records' local
    adir_fields,     \* adi_parse_record's local record
    fieldname,       \* adi_parse_data_specifier's locals
    fieldlength,
    fieldvalue,
    returned,        \* what adi_parse_data_specifier returned, called alone
    consumed,        \* history: the bytes of the tokens consumed so far
    result,          \* what adi_parse returned
    plan,            \* the parts the input was assembled from
    adi,             \* the AdiFile given to adif_parse_adi
    adif_result,     \* what adif_parse_adi returned
    tool             \* a run of the dump tool or of the diff tool

vars == <<aps_source, aps_tokens, aps_error, aps_done, pc, ret, lab_ret,
          header, header_content, header_fields, records, adir_fields,
          fieldname, fieldlength, fieldvalue, returned, consumed, result,
          plan, adi, adif_result, tool>>

----------------------------------------------------------------------------
(* Bounds of the model.                                                    *)

\* the underlying reader returns at most 1..MaxRead bytes per read call,
\* or as many as the BufReader asks for
MaxRead == 2
\* header data specifiers of a generated file: 0..MaxHeaderFields
MaxHeaderFields == 1
\* records of a generated file: 0..MaxRecords
MaxRecords == 2
\* data specifiers of a generated record: 1..MaxFields
MaxFields == 2

----------------------------------------------------------------------------
(* Bytes.                                                                  *)

CH_LAB == 60
CH_COLON == 58
CH_RAB == 62
CH_CR == 13
CH_LF == 10

\* "eoh" and "eor"
ADI_STR_EOH == <<101, 111, 104>>
ADI_STR_EOR == <<101, 111, 114>>

ADI_MAX_FIELDLEN == 1024

\* capacity of std::io::BufReader::new
DEFAULT_BUF_SIZE == 8192

Min(a, b) == IF a <= b THEN a ELSE b

MinOf(S) == CHOOSE x \in S : \A y \in S : x <= y

\* a test that takes ":" for an ordinary byte
IsDelimiterNoColon(c) == c = CH_LAB \/ c = CH_RAB

IsDelimiter(c) == c = CH_LAB \/ c = CH_COLON \/ c = CH_RAB

\* char::is_ascii, char::is_ascii_control
\* a test that takes every byte for ASCII
IsAsciiAny(c) == TRUE

IsAscii(c) == c < 128
IsAsciiControl(c) == c < 32 \/ c = 127

\* char::to_ascii_lowercase; String::to_lowercase on an ASCII string
LowerByte(c) == IF c >= 65 /\ c <= 90 THEN c + 32 ELSE c
ToLowercase(b) == [i \in 1..Len(b) |-> LowerByte(b[i])]

\* a comparison that tells the cases apart
EqExactCase(a, b) == a = b

\* char::eq_ignore_ascii_case
EqIgnoreAsciiCase(a, b) == LowerByte(a) = LowerByte(b)

byteseq_equal_ci(bytes, s) ==
    IF Len(bytes) # Len(s) THEN FALSE
    ELSE \A i \in 1..Len(bytes) : EqIgnoreAsciiCase(s[i], bytes[i])

----------------------------------------------------------------------------
(* Tokens and the tokenizer.                                               *)

Tok(t, b) == [t |-> t, b |-> b]
ADI_TOK_LAB == Tok("LAB", <<>>)
ADI_TOK_COLON == Tok("COLON", <<>>)
ADI_TOK_RAB == Tok("RAB", <<>>)
ADI_TOK_EOF == Tok("EOF", <<>>)
ADI_TOK_BYTES(b) == Tok("BYTES", b)

\* the underlying reader never returns an error
NoFailure == 0 - 1

\* one read of the underlying reader at pos: the bytes it delivers end at
\* the result; the reader delivers fail_at bytes and then returns an error
ReadUpTo(src) ==
    Min(src.pos + Min(src.read_max, DEFAULT_BUF_SIZE), Len(src.data))

\* BufReader::fill_buf: when the buffer is empty, one read of the
\* underlying reader refills it; the buffer is data[pos+1 .. filled];
\* err is the io::Error of that read
FillBuf(src) ==
    IF src.pos >= src.filled
    THEN IF src.fail_at = NoFailure
         THEN [src EXCEPT !.filled = ReadUpTo(src)]
         ELSE IF src.pos >= src.fail_at
         THEN [src EXCEPT !.err = TRUE]
         ELSE [src EXCEPT !.filled = Min(ReadUpTo(src), src.fail_at)]
    ELSE src

\* BufReader::consume
SourceConsume(src, n) == [src EXCEPT !.pos = @ + n]

\* the raw-byte-run loop: the first i >= 1 with buf[i] a delimiter or
\* i = buf.len()
RunLength(src) ==
    MinOf({i \in 1..(src.filled - src.pos) :
               \/ src.pos + i = src.filled
               \/ IsDelimiter(src.data[src.pos + i + 1])})

\* a run that loses its last byte
BytesTokenShort(src, length) ==
    [ok |-> TRUE,
     tok |-> ADI_TOK_BYTES(SubSeq(src.data, src.pos + 1,
                                  src.pos + length - 1)),
     src |-> SourceConsume(src, length)]

\* lines 250-269: the run is copied out of the buffer and consumed
BytesToken(src, length) ==
    [ok |-> TRUE,
     tok |-> ADI_TOK_BYTES(SubSeq(src.data, src.pos + 1, src.pos + length)),
     src |-> SourceConsume(src, length)]

\* Ok(token), with the source after it
TokenRead(tok, src) == [ok |-> TRUE, tok |-> tok, src |-> src]

\* lines 227-269, on the source after fill_buf; ok = FALSE is the Err
\* that "?" makes of the io::Error of fill_buf
ReadTokenFrom(src) ==
    IF src.err THEN [ok |-> FALSE, tok |-> ADI_TOK_EOF, src |-> src]
    ELSE IF src.filled = src.pos THEN TokenRead(ADI_TOK_EOF, src)
    ELSE IF src.data[src.pos + 1] = CH_LAB
    THEN TokenRead(ADI_TOK_LAB, SourceConsume(src, 1))
    ELSE IF src.data[src.pos + 1] = CH_COLON
    THEN TokenRead(ADI_TOK_COLON, SourceConsume(src, 1))
    ELSE IF src.data[src.pos + 1] = CH_RAB
    THEN TokenRead(ADI_TOK_RAB, SourceConsume(src, 1))
    ELSE BytesToken(src, RunLength(src))

\* returns the token, or the error, and the source after it
adi_import_read_token(source) == ReadTokenFrom(FillBuf(source))

----------------------------------------------------------------------------
(* The lookahead queue.  s is the record of the whole parse state.         *)

NoHeader == [some |-> FALSE, adih_content |-> <<>>, adih_fields |-> <<>>]
NoFile == [adi_header |-> NoHeader, adi_records |-> <<>>]
NoResult == [kind |-> "none", msg |-> "", file |-> NoFile]

\* Result<AdiFile, AdifParseError>
Ok(file) == [kind |-> "Ok", msg |-> "", file |-> file]
Err(kind, msg) == [kind |-> kind, msg |-> msg, file |-> NoFile]

\* a failed assert! or unwrap: the parse ends in a panic
PanicMsg(s, msg) == [s EXCEPT !.result = Err("panic", msg), !.pc = "done"]

Panic(s) == PanicMsg(s, "assertion failed")

\* return Err(..) out of adi_parse, from any depth (the ? operator)
Fail(s, kind, msg) == [s EXCEPT !.result = Err(kind, msg), !.pc = "done"]

Panicked(s) == s.result.kind = "panic"

\* the parse has left adi_parse, with an error or in a panic
Stopped(s) == s.result.kind # "none"

\* the bytes a token was made of
TokenBytes(t) ==
    IF t.t = "BYTES" THEN t.b
    ELSE IF t.t = "LAB" THEN <<CH_LAB>>
    ELSE IF t.t = "COLON" THEN <<CH_COLON>>
    ELSE IF t.t = "RAB" THEN <<CH_RAB>>
    ELSE <<>>

RECURSIVE Flatten(_)
Flatten(tokens) ==
    IF Len(tokens) = 0 THEN <<>>
    ELSE TokenBytes(Head(tokens)) \o Flatten(Tail(tokens))

\* a push at the front of the queue
EnqueueFront(s, r) ==
    [s EXCEPT !.aps_source = r.src,
              !.aps_done = @ \/ (r.tok = ADI_TOK_EOF),
              !.aps_tokens = <<r.tok>> \o @]

\* lines 349-354: the token read is pushed
Enqueue(s, r) ==
    [s EXCEPT !.aps_source = r.src,
              !.aps_done = @ \/ (r.tok = ADI_TOK_EOF),
              !.aps_tokens = Append(@, r.tok)]

\* an error arm that returns the error and leaves the flag unset
TokenErrorUnflagged(s, r) ==
    Fail([s EXCEPT !.aps_source = r.src], "ADIF_EIO", "i/o error")

\* lines 356-359: the error is noted and returned, and every caller
\* returns it in turn
TokenError(s, r) ==
    Fail([s EXCEPT !.aps_source = r.src, !.aps_error = TRUE],
         "ADIF_EIO", "i/o error")

RECURSIVE AdvanceLoop(_, _)
\* lines 348-360, given the result of adi_import_read_token
Advanced(s, r, howmany) ==
    IF r.ok THEN AdvanceLoop(Enqueue(s, r), howmany) ELSE TokenError(s, r)

\* a loop that goes on reading after the end-of-file token
AdvanceLoopPastEof(s, howmany) ==
    IF howmany > Len(s.aps_tokens)
    THEN Advanced(s, adi_import_read_token(s.aps_source), howmany)
    ELSE s

\* lines 346-362
AdvanceLoop(s, howmany) ==
    IF ~s.aps_done /\ howmany > Len(s.aps_tokens)
    THEN Advanced(s, adi_import_read_token(s.aps_source), howmany)
    ELSE s

adi_parse_advance_tokens(s, howmany) ==
    IF s.aps_error
    THEN PanicMsg(s, "adi_parse_advance_tokens: assertion failed")
    ELSE AdvanceLoop(s, howmany)

\* consumed is the history of the bytes of the tokens removed
adi_parse_consume_tokens(s, howmany) ==
    IF s.aps_error \/ howmany > Len(s.aps_tokens)
    THEN PanicMsg(s, "adi_parse_consume_tokens: assertion failed")
    ELSE [s EXCEPT !.aps_tokens = SubSeq(@, howmany + 1, Len(@)),
                   !.consumed =
                       @ \o Flatten(SubSeq(s.aps_tokens, 1, howmany))]

\* lines 396-406, on the state after adi_parse_advance_tokens
PeekAsserts(a, which) ==
    IF Stopped(a) THEN a
    ELSE IF which < Len(a.aps_tokens) THEN a
    ELSE IF /\ a.aps_done
            /\ Len(a.aps_tokens) > 0
            /\ a.aps_tokens[Len(a.aps_tokens)] = ADI_TOK_EOF
         THEN a
         ELSE Panic(a)

\* the state after a call of adi_parse_peek_token(aps, which)
PeekCall(s, which) ==
    PeekAsserts(adi_parse_advance_tokens(s, which + 1), which)

\* the state after adi_parse_peek_token(aps, which)?: when an earlier
\* call of the same step has returned an error, this one is not made
PeekState(s, which) == IF Stopped(s) THEN s ELSE PeekCall(s, which)

\* the token adi_parse_peek_token(aps, which) returns, given the state
\* after it.  Tokens are only ever appended behind the queue, and nothing
\* is appended behind the end-of-file token, so a peek made earlier in the
\* same step returned the token this gives on the state after the step's
\* last peek.
PeekToken(a, which) ==
    IF which < Len(a.aps_tokens) THEN a.aps_tokens[which + 1]
    ELSE a.aps_tokens[Len(a.aps_tokens)]

----------------------------------------------------------------------------
(* adi_token_string and str::parse::<usize>.                               *)

\* Ok(the bytes) for a BYTES token of ASCII bytes with no control byte
\* other than CR and LF; ok = FALSE otherwise
adi_token_string(token) ==
    IF token.t = "BYTES"
    THEN IF \E i \in 1..Len(token.b) :
                \/ ~IsAscii(token.b[i])
                \/ /\ IsAsciiControl(token.b[i])
                   /\ token.b[i] # CH_CR
                   /\ token.b[i] # CH_LF
         THEN [ok |-> FALSE, str |-> <<>>, msg |-> "expected ASCII character"]
         ELSE [ok |-> TRUE, str |-> token.b, msg |-> ""]
    ELSE [ok |-> FALSE, str |-> <<>>, msg |-> "expected ASCII string"]

IsDigit(c) == c >= 48 /\ c <= 57

RECURSIVE DigitsValue(_)
DigitsValue(d) ==
    IF Len(d) = 0 THEN 0
    ELSE 10 * DigitsValue(SubSeq(d, 1, Len(d) - 1)) + (d[Len(d)] - 48)

\* the digits of a length, after the optional '+'
Unsigned(str) == IF Len(str) > 0 /\ str[1] = 43 THEN Tail(str) ELSE str

\* usize::from_str: an optional '+', then one or more decimal digits;
\* -1 stands for Err.  The generated lengths have few digits, so the
\* overflow of usize is not met.
ParseUsize(str) ==
    IF Len(Unsigned(str)) = 0
       \/ \E i \in 1..Len(Unsigned(str)) : ~IsDigit(Unsigned(str)[i])
    THEN -1
    ELSE DigitsValue(Unsigned(str))

----------------------------------------------------------------------------
(* adi_parse.                                                              *)

\* lines 422-429, on the state after the peek
\* a match that runs the header parser whatever the first token is
AdiParseAlwaysHeader(a) ==
    IF Stopped(a) THEN a
    ELSE [a EXCEPT !.header_content = <<>>, !.header_fields = <<>>,
                   !.pc = "header"]

AdiParseMatch(a) ==
    IF Stopped(a) THEN a
    ELSE IF PeekToken(a, 0) = ADI_TOK_LAB
         THEN [a EXCEPT !.header = NoHeader,
                        !.records = <<>>,
                        !.lab_ret = "records", !.pc = "consume_until_lab"]
         ELSE [a EXCEPT !.header_content = <<>>, !.header_fields = <<>>,
                        !.pc = "header"]

\* lines 415-427: the first peek decides whether there is a header
adi_parse_step(s) == AdiParseMatch(PeekState(s, 0))

\* the call of adi_parse_data_specifier from the header or a record
CallDataSpecifier(a, from) ==
    [a EXCEPT !.ret = from, !.pc = "data_specifier"]

\* an end of input that ends the header as the marker does
HeaderEndsAtEof(a) ==
    [a EXCEPT !.header = [some |-> TRUE,
                          adih_content |-> a.header_content,
                          adih_fields |-> a.header_fields],
              !.records = <<>>,
              !.lab_ret = "records",
              !.pc = "consume_until_lab"]

\* lines 495-498
HeaderEof(a) ==
    Fail(a, "ADIF_EBADINPUT", "unexpected end of input while reading header")

\* lines 472-480 and 502-505, then lines 429 and 641-643
HeaderEoh(a2) ==
    IF Stopped(a2) THEN a2
    ELSE IF PeekToken(a2, 2) = ADI_TOK_RAB
    THEN adi_parse_consume_tokens(
             [a2 EXCEPT !.header = [some |-> TRUE,
                                    adih_content |-> a2.header_content,
                                    adih_fields |-> a2.header_fields],
                        !.records = <<>>,
                        !.lab_ret = "records",
                        !.pc = "consume_until_lab"], 3)
    ELSE CallDataSpecifier(a2, "header")

\* lines 469-492
HeaderLab(a1) ==
    IF Stopped(a1) THEN a1
    ELSE IF /\ PeekToken(a1, 1).t = "BYTES"
            /\ byteseq_equal_ci(PeekToken(a1, 1).b, ADI_STR_EOH)
    THEN HeaderEoh(PeekState(a1, 2))
    ELSE CallDataSpecifier(a1, "header")

\* a match that consumes a colon without keeping it
HeaderMatchDropsColon(a, t) ==
    IF Stopped(a) THEN a
    ELSE IF t.t = "BYTES"
    THEN adi_parse_consume_tokens(
             [a EXCEPT !.header_content = @ \o t.b], 1)
    ELSE IF t.t = "COLON"
    THEN adi_parse_consume_tokens(a, 1)
    ELSE IF t.t = "RAB"
    THEN adi_parse_consume_tokens(
             [a EXCEPT !.header_content = Append(@, CH_RAB)], 1)
    ELSE IF t.t = "LAB"
    THEN HeaderLab(PeekState(a, 1))
    ELSE HeaderEof(a)

\* the match at line 446
HeaderMatch(a, t) ==
    IF Stopped(a) THEN a
    ELSE IF t.t = "BYTES"
    THEN adi_parse_consume_tokens(
             [a EXCEPT !.header_content = @ \o t.b], 1)
    ELSE IF t.t = "COLON"
    THEN adi_parse_consume_tokens(
             [a EXCEPT !.header_content = Append(@, CH_COLON)], 1)
    ELSE IF t.t = "RAB"
    THEN adi_parse_consume_tokens(
             [a EXCEPT !.header_content = Append(@, CH_RAB)], 1)
    ELSE IF t.t = "LAB"
    THEN HeaderLab(PeekState(a, 1))
    ELSE HeaderEof(a)

HeaderPeeked(a) == HeaderMatch(a, PeekToken(a, 0))

\* one iteration of the loop of adi_parse_header; on "break" the header is
\* returned to adi_parse, which calls adi_parse_records
adi_parse_header_step(s) == HeaderPeeked(PeekState(s, 0))

\* a check that lets one more byte through
FieldLengthOffByOne(n) == n <= ADI_MAX_FIELDLEN + 1

\* line 555: the declared length is within the maximum
FieldLengthOk(n) == n <= ADI_MAX_FIELDLEN

\* a match without the arm of the typed specifier
TerminatorNeverTyped(t_rab) == FALSE

\* line 574: the token after the length opens a type
TerminatorTyped(t_rab) == t_rab = ADI_TOK_COLON

\* checks that look at the terminator before the length
SpecifierChecksTypeFirst(a, name, t_colon, fieldlength_str, t_rab) ==
    IF ~name.ok
    THEN Fail(a, "ADIF_EBADINPUT", name.msg)
    ELSE IF t_colon # ADI_TOK_COLON
    THEN Fail(a, "ADIF_EBADINPUT", "expected colon")
    ELSE IF TerminatorTyped(t_rab)
    THEN Fail(a, "ADIF_ENOT_YET_IMPLEMENTED", "typed values are not supported")
    ELSE IF ~fieldlength_str.ok
    THEN Fail(a, "ADIF_EBADINPUT", fieldlength_str.msg)
    ELSE IF ParseUsize(fieldlength_str.str) < 0
    THEN Fail(a, "ADIF_EBADINPUT", "parsing data specifier length")
    ELSE IF ~FieldLengthOk(ParseUsize(fieldlength_str.str))
    THEN Fail(a, "ADIF_EBADINPUT", "max supported size")
    ELSE IF t_rab # ADI_TOK_RAB
    THEN Fail(a, "ADIF_EBADINPUT", "expected right bracket")
    ELSE adi_parse_consume_tokens(
             [a EXCEPT !.fieldname = name.str,
                       !.fieldlength = ParseUsize(fieldlength_str.str),
                       !.fieldvalue = <<>>,
                       !.pc = "value"], 5)

\* lines 540-592, given the four tokens peeked
SpecifierChecks(a, name, t_colon, fieldlength_str, t_rab) ==
    IF ~name.ok
    THEN Fail(a, "ADIF_EBADINPUT", name.msg)
    ELSE IF t_colon # ADI_TOK_COLON
    THEN Fail(a, "ADIF_EBADINPUT", "expected colon")
    ELSE IF ~fieldlength_str.ok
    THEN Fail(a, "ADIF_EBADINPUT", fieldlength_str.msg)
    ELSE IF ParseUsize(fieldlength_str.str) < 0
    THEN Fail(a, "ADIF_EBADINPUT", "parsing data specifier length")
    ELSE IF ~FieldLengthOk(ParseUsize(fieldlength_str.str))
    THEN Fail(a, "ADIF_EBADINPUT", "max supported size")
    ELSE IF TerminatorTyped(t_rab)
    THEN Fail(a, "ADIF_ENOT_YET_IMPLEMENTED", "typed values are not supported")
    ELSE IF t_rab # ADI_TOK_RAB
    THEN Fail(a, "ADIF_EBADINPUT", "expected right bracket")
    ELSE adi_parse_consume_tokens(
             [a EXCEPT !.fieldname = name.str,
                       !.fieldlength = ParseUsize(fieldlength_str.str),
                       !.fieldvalue = <<>>,
                       !.pc = "value"], 5)

\* checks made after the left bracket has been consumed
SpecifierPeekedConsuming(a4) ==
    IF Stopped(a4) THEN a4
    ELSE SpecifierChecks(adi_parse_consume_tokens(a4, 1),
                         adi_token_string(PeekToken(a4, 1)),
                         PeekToken(a4, 2),
                         adi_token_string(PeekToken(a4, 3)),
                         PeekToken(a4, 4))

\* lines 535-538, on the state after the four peeks
SpecifierPeeked(a4) ==
    IF Stopped(a4) THEN a4
    ELSE SpecifierChecks(a4,
                         adi_token_string(PeekToken(a4, 1)),
                         PeekToken(a4, 2),
                         adi_token_string(PeekToken(a4, 3)),
                         PeekToken(a4, 4))

\* an entry that looks one token further
SpecifierPeeksFurther(a0) ==
    PeekState(
        PeekState(PeekState(PeekState(PeekState(a0, 1), 2), 3), 4), 5)

\* lines 533-538: the state after the five peeks
SpecifierPeeks(a0) ==
    PeekState(PeekState(PeekState(PeekState(a0, 1), 2), 3), 4)

\* line 533
SpecifierEntry(a0) ==
    IF Panicked(a0) THEN a0
    ELSE IF a0.aps_error
    THEN PanicMsg(a0, "adi_parse_data_specifier: unwrap on an Err value")
    ELSE IF PeekToken(a0, 0) # ADI_TOK_LAB
    THEN PanicMsg(a0, "adi_parse_data_specifier: assertion failed")
    ELSE SpecifierPeeked(SpecifierPeeks(a0))

\* adi_parse_data_specifier up to and including the consume of the five
\* tokens "<" name ":" length ">" (lines 533-592)
adi_parse_data_specifier_step(s) == SpecifierEntry(PeekState(s, 0))

\* Option<String>: None, Some(s)
NoType == <<>>
SomeType(s) == <<s>>

\* the AdiDataSpecifier returned at lines 626-632
AdiDataSpecifier(s) ==
    [adif_name_canon |-> ToLowercase(s.fieldname),
     adif_name |-> s.fieldname,
     adif_length |-> s.fieldlength,
     adif_bytes |-> s.fieldvalue,
     adif_type |-> NoType]

\* the byte a colon token adds to the value (line 598)
ColonByte == CH_LAB

\* an end of input that ends the value where it is
ValueEofEndsValue(c) == [c EXCEPT !.fieldlength = Len(c.fieldvalue)]

\* lines 610-614
ValueEof(c) ==
    Fail(c, "ADIF_EBADINPUT", "unexpected end of input in value")

\* a match that takes the whole of every run
ValueMatchWholeRun(c, t_value) ==
    IF Stopped(c) THEN c
    ELSE IF t_value.t = "COLON"
    THEN [c EXCEPT !.fieldvalue = Append(@, ColonByte)]
    ELSE IF t_value.t = "RAB"
    THEN [c EXCEPT !.fieldvalue = Append(@, CH_RAB)]
    ELSE IF t_value.t = "LAB"
    THEN [c EXCEPT !.fieldvalue = Append(@, CH_LAB)]
    ELSE IF t_value.t = "BYTES"
    THEN [c EXCEPT !.fieldvalue = @ \o t_value.b]
    ELSE ValueEof(c)

\* lines 596-615: c is the state after the consume, t_value the token
ValueMatch(c, t_value) ==
    IF Stopped(c) THEN c
    ELSE IF t_value.t = "COLON"
    THEN [c EXCEPT !.fieldvalue = Append(@, ColonByte)]
    ELSE IF t_value.t = "RAB"
    THEN [c EXCEPT !.fieldvalue = Append(@, CH_RAB)]
    ELSE IF t_value.t = "LAB"
    THEN [c EXCEPT !.fieldvalue = Append(@, CH_LAB)]
    ELSE IF t_value.t = "BYTES"
    THEN [c EXCEPT !.fieldvalue =
             @ \o SubSeq(t_value.b, 1,
                         Min(Len(t_value.b), c.fieldlength - Len(@)))]
    ELSE ValueEof(c)

\* a loop that takes two tokens for the one it looked at
ValuePeekedTwo(a) ==
    IF Stopped(a) THEN a
    ELSE ValueMatch(adi_parse_consume_tokens(a, 2), PeekToken(a, 0))

\* lines 594-595
ValuePeeked(a) ==
    IF Stopped(a) THEN a
    ELSE ValueMatch(adi_parse_consume_tokens(a, 1), PeekToken(a, 0))

\* one test of the while loop at line 593 and, if it holds, one
\* iteration; otherwise the call of adi_parse_consume_until_lab
adi_parse_value_step(s) ==
    IF s.fieldlength > Len(s.fieldvalue)
    THEN ValuePeeked(PeekState(s, 0))
    ELSE [s EXCEPT !.lab_ret = "data_specifier", !.pc = "consume_until_lab"]

\* what the caller of adi_parse_consume_until_lab does when it returns
AfterConsumeUntilLab(s) ==
    IF s.lab_ret = "data_specifier"
    THEN \* lines 624-632, then the push of the caller
         IF Len(s.fieldvalue) # s.fieldlength
         THEN PanicMsg(s, "adi_parse_data_specifier: value length")
         ELSE IF s.ret = "header"
         THEN [s EXCEPT !.header_fields = Append(@, AdiDataSpecifier(s)),
                        !.pc = "header"]
         ELSE IF s.ret = "record"
         THEN [s EXCEPT !.adir_fields = Append(@, AdiDataSpecifier(s)),
                        !.pc = "record"]
         ELSE \* called on its own: Ok(AdiDataSpecifier {..}) goes to the caller
              [s EXCEPT !.returned = <<AdiDataSpecifier(s)>>,
                        !.result = Ok(NoFile),
                        !.pc = "done"]
    ELSE IF s.lab_ret = "record"
    THEN \* lines 681, 689 and 651
         [s EXCEPT !.records = Append(@, [adir_fields |-> s.adir_fields]),
                   !.pc = "records"]
    ELSE \* line 643
         [s EXCEPT !.pc = "records"]

\* lines 702-706
\* a loop that looks at the token and leaves it in the queue
UntilLabNoConsume(a) ==
    IF Stopped(a) THEN a
    ELSE IF PeekToken(a, 0) = ADI_TOK_LAB \/ PeekToken(a, 0) = ADI_TOK_EOF
    THEN AfterConsumeUntilLab(a)
    ELSE a

\* a loop that also stops at a colon
UntilLabStopsAtColon(a) ==
    IF Stopped(a) THEN a
    ELSE IF \/ PeekToken(a, 0) = ADI_TOK_LAB
            \/ PeekToken(a, 0) = ADI_TOK_EOF
            \/ PeekToken(a, 0) = ADI_TOK_COLON
    THEN AfterConsumeUntilLab(a)
    ELSE adi_parse_consume_tokens(a, 1)

\* a loop that also stops at a right bracket
UntilLabStopsAtRab(a) ==
    IF Stopped(a) THEN a
    ELSE IF \/ PeekToken(a, 0) = ADI_TOK_LAB
            \/ PeekToken(a, 0) = ADI_TOK_EOF
            \/ PeekToken(a, 0) = ADI_TOK_RAB
    THEN AfterConsumeUntilLab(a)
    ELSE adi_parse_consume_tokens(a, 1)

\* lines 699-707, on the state after the peek
UntilLabMatch(a) ==
    IF Stopped(a) THEN a
    ELSE IF PeekToken(a, 0) = ADI_TOK_LAB \/ PeekToken(a, 0) = ADI_TOK_EOF
    THEN AfterConsumeUntilLab(a)
    ELSE adi_parse_consume_tokens(a, 1)

\* one iteration of the loop of adi_parse_consume_until_lab
adi_parse_consume_until_lab_step(s) == UntilLabMatch(PeekState(s, 0))

\* lines 646-653, then lines 656 and 431-434
RecordsMatch(a) ==
    IF Stopped(a) THEN a
    ELSE IF PeekToken(a, 0) = ADI_TOK_EOF
    THEN [a EXCEPT !.result = Ok([adi_header |-> a.header,
                                  adi_records |-> a.records]),
                   !.pc = "done"]
    ELSE [a EXCEPT !.adir_fields = <<>>, !.pc = "record"]

\* one iteration of the loop of adi_parse_records
adi_parse_records_step(s) == RecordsMatch(PeekState(s, 0))

\* a match that takes "<eoh>" for the end of a record as well
RecordMatchAnyMarker(a2) ==
    IF Stopped(a2) THEN a2
    ELSE IF /\ PeekToken(a2, 0) = ADI_TOK_LAB
            /\ PeekToken(a2, 1).t = "BYTES"
            /\ PeekToken(a2, 2) = ADI_TOK_RAB
            /\ \/ byteseq_equal_ci(PeekToken(a2, 1).b, ADI_STR_EOR)
               \/ byteseq_equal_ci(PeekToken(a2, 1).b, ADI_STR_EOH)
    THEN adi_parse_consume_tokens(
             [a2 EXCEPT !.lab_ret = "record", !.pc = "consume_until_lab"], 3)
    ELSE CallDataSpecifier(a2, "record")

\* a match that takes "<eor" for the end of the record whatever follows
RecordMatchAnyEor(a2) ==
    IF Stopped(a2) THEN a2
    ELSE IF /\ PeekToken(a2, 0) = ADI_TOK_LAB
            /\ PeekToken(a2, 1).t = "BYTES"
            /\ byteseq_equal_ci(PeekToken(a2, 1).b, ADI_STR_EOR)
    THEN adi_parse_consume_tokens(
             [a2 EXCEPT !.lab_ret = "record", !.pc = "consume_until_lab"], 3)
    ELSE CallDataSpecifier(a2, "record")

\* lines 674-686
RecordMatch(a2) ==
    IF Stopped(a2) THEN a2
    ELSE IF /\ PeekToken(a2, 0) = ADI_TOK_LAB
            /\ PeekToken(a2, 1).t = "BYTES"
            /\ PeekToken(a2, 2) = ADI_TOK_RAB
            /\ byteseq_equal_ci(PeekToken(a2, 1).b, ADI_STR_EOR)
    THEN adi_parse_consume_tokens(
             [a2 EXCEPT !.lab_ret = "record", !.pc = "consume_until_lab"], 3)
    ELSE CallDataSpecifier(a2, "record")

\* one iteration of the loop of adi_parse_record
adi_parse_record_step(s) ==
    RecordMatch(PeekState(PeekState(PeekState(s, 0), 1), 2))

\* the step the parse takes from state s
Step(s) ==
    CASE s.pc = "adi_parse" -> adi_parse_step(s)
      [] s.pc = "header" -> adi_parse_header_step(s)
      [] s.pc = "data_specifier" -> adi_parse_data_specifier_step(s)
      [] s.pc = "value" -> adi_parse_value_step(s)
      [] s.pc = "consume_until_lab" -> adi_parse_consume_until_lab_step(s)
      [] s.pc = "records" -> adi_parse_records_step(s)
      [] s.pc = "record" -> adi_parse_record_step(s)
      [] OTHER -> s

\* the state at the call of adi_parse(source): lines 415-420
Source(data, read_max) ==
    [data |-> data, read_max |-> read_max, pos |-> 0, filled |-> 0,
     fail_at |-> NoFailure, err |-> FALSE]

StartFrom(source) ==
    [aps_source |-> source,
     aps_tokens |-> <<>>,
     aps_error |-> FALSE,
     aps_done |-> FALSE,
     pc |-> "adi_parse",
     ret |-> "none",
     lab_ret |-> "none",
     header |-> NoHeader,
     header_content |-> <<>>,
     header_fields |-> <<>>,
     records |-> <<>>,
     adir_fields |-> <<>>,
     fieldname |-> <<>>,
     fieldlength |-> 0,
     fieldvalue |-> <<>>,
     returned |-> <<>>,
     consumed |-> <<>>,
     result |-> NoResult]

Start(data, read_max) == StartFrom(Source(data, read_max))

\* the same on a reader that returns an error once it has delivered
\* fail_at bytes
StartIo(data, read_max, fail_at) ==
    StartFrom([Source(data, read_max) EXCEPT !.fail_at = fail_at])

RECURSIVE RunFrom(_)
RunFrom(s) == IF s.pc = "done" THEN s ELSE RunFrom(Step(s))

\* the result of adi_parse on the bytes data, read read_max at a time
Run(data, read_max) == RunFrom(Start(data, read_max)).result


----------------------------------------------------------------------------
(* The parse as a state machine.                                           *)

State ==
    [aps_source |-> aps_source,
     aps_tokens |-> aps_tokens,
     aps_error |-> aps_error,
     aps_done |-> aps_done,
     pc |-> pc,
     ret |-> ret,
     lab_ret |-> lab_ret,
     header |-> header,
     header_content |-> header_content,
     header_fields |-> header_fields,
     records |-> records,
     adir_fields |-> adir_fields,
     fieldname |-> fieldname,
     fieldlength |-> fieldlength,
     fieldvalue |-> fieldvalue,
     returned |-> returned,
     consumed |-> consumed,
     result |-> result]

Install(n) ==
    /\ aps_source' = n.aps_source
    /\ aps_tokens' = n.aps_tokens
    /\ aps_error' = n.aps_error
    /\ aps_done' = n.aps_done
    /\ pc' = n.pc
    /\ ret' = n.ret
    /\ lab_ret' = n.lab_ret
    /\ header' = n.header
    /\ header_content' = n.header_content
    /\ header_fields' = n.header_fields
    /\ records' = n.records
    /\ adir_fields' = n.adir_fields
    /\ fieldname' = n.fieldname
    /\ fieldlength' = n.fieldlength
    /\ fieldvalue' = n.fieldvalue
    /\ returned' = n.returned
    /\ consumed' = n.consumed
    /\ result' = n.result
    /\ UNCHANGED <<plan, adi, adif_result, tool>>

AdiParse ==
    /\ pc = "adi_parse"
    /\ Install(adi_parse_step(State))

AdiParseHeader ==
    /\ pc = "header"
    /\ Install(adi_parse_header_step(State))

AdiParseDataSpecifier ==
    /\ pc = "data_specifier"
    /\ Install(adi_parse_data_specifier_step(State))

AdiParseValue ==
    /\ pc = "value"
    /\ Install(adi_parse_value_step(State))

AdiParseConsumeUntilLab ==
    /\ pc = "consume_until_lab"
    /\ Install(adi_parse_consume_until_lab_step(State))

AdiParseRecords ==
    /\ pc = "records"
    /\ Install(adi_parse_records_step(State))

AdiParseRecord ==
    /\ pc = "record"
    /\ Install(adi_parse_record_step(State))

Next ==
    \/ AdiParse
    \/ AdiParseHeader
    \/ AdiParseDataSpecifier
    \/ AdiParseValue
    \/ AdiParseConsumeUntilLab
    \/ AdiParseRecords
    \/ AdiParseRecord

----------------------------------------------------------------------------
(* adif_parse_adi (src/adif.rs).  Strings are their UTF-8 bytes.           *)

ADIF_HEADER_ADIF_VER == <<97, 100, 105, 102, 95, 118, 101, 114>>
ADIF_HEADER_CREATED_TIMESTAMP ==
    <<99, 114, 101, 97, 116, 101, 100, 95,
      116, 105, 109, 101, 115, 116, 97, 109, 112>>
ADIF_HEADER_PROGRAMID == <<112, 114, 111, 103, 114, 97, 109, 105, 100>>
ADIF_HEADER_PROGRAMVERSION ==
    <<112, 114, 111, 103, 114, 97, 109, 118, 101, 114, 115, 105, 111, 110>>

IsCont(c) == c >= 128 /\ c <= 191

\* the length of the well-formed UTF-8 sequence at the front of b, 0 if
\* there is none (what core::str::from_utf8 accepts)
Utf8SeqLen(b) ==
    IF b[1] < 128 THEN 1
    ELSE IF b[1] >= 194 /\ b[1] <= 223
    THEN IF Len(b) >= 2 /\ IsCont(b[2]) THEN 2 ELSE 0
    ELSE IF b[1] >= 224 /\ b[1] <= 239
    THEN IF /\ Len(b) >= 3
            /\ IsCont(b[2]) /\ IsCont(b[3])
            /\ (b[1] = 224 => b[2] >= 160)
            /\ (b[1] = 237 => b[2] <= 159)
         THEN 3 ELSE 0
    ELSE IF b[1] >= 240 /\ b[1] <= 244
    THEN IF /\ Len(b) >= 4
            /\ IsCont(b[2]) /\ IsCont(b[3]) /\ IsCont(b[4])
            /\ (b[1] = 240 => b[2] >= 144)
            /\ (b[1] = 244 => b[2] <= 143)
         THEN 4 ELSE 0
    ELSE 0

RECURSIVE IsUtf8(_)
IsUtf8(b) ==
    IF Len(b) = 0 THEN TRUE
    ELSE IF Utf8SeqLen(b) = 0 THEN FALSE
    ELSE IsUtf8(SubSeq(b, Utf8SeqLen(b) + 1, Len(b)))

NoAdifFile ==
    [adif_adif_version |-> <<>>, adif_program_id |-> <<>>,
     adif_program_version |-> <<>>, adif_created_timestamp |-> <<>>,
     adif_label |-> "", adif_records |-> <<>>]

NoAdif ==
    [kind |-> "none", msg |-> "", which |-> 0, field |-> <<>>,
     file |-> NoAdifFile]

AdifOk(adif) ==
    [kind |-> "Ok", msg |-> "", which |-> 0, field |-> <<>>, file |-> adif]

\* Err(ADIF_EBADINPUT(format!(..))): the message with the record index and
\* the field name it is formatted from
AdifErr(msg, which, field) ==
    [kind |-> "ADIF_EBADINPUT", msg |-> msg, which |-> which,
     field |-> field, file |-> NoAdifFile]

\* a type check that ignores the case of the tag
TypeIsStringAnyCase(typestr) == ToLowercase(typestr) = <<115>>

\* line 208: the tag is "S"
TypeIsString(typestr) == typestr = <<83>>

\* Ok(v) of a function that returns a string or a map, not a file: the
\* value stands where the file would
OkValue(v) ==
    [kind |-> "Ok", msg |-> "", which |-> 0, field |-> <<>>, file |-> v]

\* a conversion that accepts every byte sequence as a string
adif_string_lossy(adf) ==
    IF adf.adif_type # NoType /\ ~TypeIsString(adf.adif_type[1])
    THEN AdifErr("expected string value", 0, adf.adif_name)
    ELSE OkValue(adf.adif_bytes)

\* Result<String, AdifParseError>
adif_string(adf) ==
    IF adf.adif_type # NoType /\ ~TypeIsString(adf.adif_type[1])
    THEN AdifErr("expected string value", 0, adf.adif_name)
    ELSE IF IsUtf8(adf.adif_bytes)
    THEN OkValue(adf.adif_bytes)
    ELSE AdifErr("value contained invalid bytes for UTF-8 string", 0,
                 adf.adif_name)

\* a chain whose second and third arms store into each other's slot
HeaderSlotCrossed(canon) ==
    IF canon = ADIF_HEADER_ADIF_VER THEN "adif_adif_version"
    ELSE IF canon = ADIF_HEADER_PROGRAMID THEN "adif_program_version"
    ELSE IF canon = ADIF_HEADER_PROGRAMVERSION THEN "adif_program_id"
    ELSE IF canon = ADIF_HEADER_CREATED_TIMESTAMP
    THEN "adif_created_timestamp"
    ELSE ""

\* lines 157-164: the metadata slot of a header field, "" if it has none
HeaderSlot(canon) ==
    IF canon = ADIF_HEADER_ADIF_VER THEN "adif_adif_version"
    ELSE IF canon = ADIF_HEADER_PROGRAMID THEN "adif_program_id"
    ELSE IF canon = ADIF_HEADER_PROGRAMVERSION THEN "adif_program_version"
    ELSE IF canon = ADIF_HEADER_CREATED_TIMESTAMP
    THEN "adif_created_timestamp"
    ELSE ""

\* a loop that keeps the first value stored in a slot
RECURSIVE AdifHeaderLoopFirstWins(_, _, _)
AdifHeaderLoopFirstWins(r, fields, k) ==
    IF k > Len(fields) THEN r
    ELSE IF HeaderSlot(fields[k].adif_name_canon) = ""
    THEN AdifHeaderLoopFirstWins(r, fields, k + 1)
    ELSE IF adif_string(fields[k]).kind # "Ok"
    THEN adif_string(fields[k])
    ELSE IF r.file[HeaderSlot(fields[k].adif_name_canon)] # <<>>
    THEN AdifHeaderLoopFirstWins(r, fields, k + 1)
    ELSE AdifHeaderLoopFirstWins(
             [r EXCEPT !.file[HeaderSlot(fields[k].adif_name_canon)] =
                           <<adif_string(fields[k]).file>>],
             fields, k + 1)

\* lines 156-166, from header field k on; r is the result so far
RECURSIVE AdifHeaderLoop(_, _, _)
AdifHeaderLoop(r, fields, k) ==
    IF k > Len(fields) THEN r
    ELSE IF HeaderSlot(fields[k].adif_name_canon) = ""
    THEN AdifHeaderLoop(r, fields, k + 1)
    ELSE IF adif_string(fields[k]).kind # "Ok"
    THEN adif_string(fields[k])
    ELSE AdifHeaderLoop(
             [r EXCEPT !.file[HeaderSlot(fields[k].adif_name_canon)] =
                           <<adif_string(fields[k]).file>>],
             fields, k + 1)

\* a test that looks the name up as written
ContainsWrittenKey(record_values, adf) ==
    adf.adif_name \in DOMAIN record_values

\* line 175
ContainsKey(record_values, adf) ==
    adf.adif_name_canon \in DOMAIN record_values

\* BTreeMap::insert
Insert(map, key, value) ==
    [k \in DOMAIN map \cup {key} |-> IF k = key THEN value ELSE map[k]]

EmptyMap == [k \in {} |-> <<>>]

\* lines 173-183, from field k on: Ok with the map in file, or the error
RECURSIVE AdifFieldLoop(_, _, _, _)
AdifFieldLoop(record_values, fields, k, which) ==
    IF k > Len(fields)
    THEN OkValue(record_values)
    ELSE IF ContainsKey(record_values, fields[k])
    THEN AdifErr("duplicate value for field", which,
                 fields[k].adif_name_canon)
    ELSE IF adif_string(fields[k]).kind # "Ok"
    THEN adif_string(fields[k])
    ELSE AdifFieldLoop(
             Insert(record_values, fields[k].adif_name_canon,
                    adif_string(fields[k]).file),
             fields, k + 1, which)

\* the first record's index (line 169)
FirstWhich == 1

RECURSIVE AdifRecordLoop(_, _, _)
\* a loop that puts each record before the ones it has
AdifRecordPushFront(r, recs, which, map) ==
    IF map.kind # "Ok" THEN map
    ELSE AdifRecordLoop(
             [r EXCEPT !.file.adif_records =
                           <<[adir_field_values |-> map.file]>> \o @],
             recs, which + 1)

\* lines 170-189, from record which on; map is the result of its fields
AdifRecordPush(r, recs, which, map) ==
    IF map.kind # "Ok" THEN map
    ELSE AdifRecordLoop(
             [r EXCEPT !.file.adif_records =
                           Append(@, [adir_field_values |-> map.file])],
             recs, which + 1)

AdifRecordLoop(r, recs, which) ==
    IF which - FirstWhich + 1 > Len(recs) THEN r
    ELSE AdifRecordPush(r, recs, which,
             AdifFieldLoop(EmptyMap, recs[which - FirstWhich + 1].adir_fields,
                           1, which))

\* lines 169-191, after the header
AdifRecords(r, a) ==
    IF r.kind # "Ok" THEN r
    ELSE AdifRecordLoop(r, a.adi_records, FirstWhich)

adif_parse_adi(label, a) ==
    AdifRecords(
        AdifHeaderLoop(AdifOk([NoAdifFile EXCEPT !.adif_label = label]),
                       IF a.adi_header.some
                       THEN a.adi_header.adih_fields ELSE <<>>,
                       1),
        a)

adif_done == adif_result.kind # "none"

\* no tool runs
NoTool == [pc |-> "none"]

AdifParseAdi ==
    /\ ~adif_done
    /\ adif_result' = adif_parse_adi(plan.label, adi)
    /\ UNCHANGED <<aps_source, aps_tokens, aps_error, aps_done, pc, ret,
                   lab_ret, header, header_content, header_fields, records,
                   adir_fields, fieldname, fieldlength, fieldvalue, returned,
                   consumed, result, plan, adi, tool>>

----------------------------------------------------------------------------
(* Inputs: files assembled from parts.                                     *)

\* what the underlying reader returns per read call
ReadSizes == (1..MaxRead) \cup {DEFAULT_BUF_SIZE}

Digit(n) == 48 + n

\* the three letters of a marker, letter i in upper case when bit i of
\* mask is set
Spelling(letters, mask) ==
    [i \in 1..3 |->
        IF (mask \div (IF i = 1 THEN 1 ELSE IF i = 2 THEN 2 ELSE 4)) % 2 = 1
        THEN letters[i] - 32 ELSE letters[i]]

CaseMasks == 0..7

\* the ways a generated file writes its specifiers: 1 is compact, 2 has
\* upper-case names and a line feed after everything, 3 has empty values
\* and ">:x" after everything
Styles == {1, 2, 3}

\* style 4 is compact with the type tag ":S" after every length
TypedStyles == {4}

Pad(style) ==
    IF style = 2 THEN <<CH_LF>>
    ELSE IF style = 3 THEN <<CH_RAB, CH_COLON, 120>>
    ELSE <<>>

TypeTag(style) == IF style \in TypedStyles THEN <<CH_COLON, 83>> ELSE <<>>

\* specifier j of record i (the header is record 0)
FieldName(style, j) ==
    IF style = 2 THEN <<81, 83, Digit(j)>>
    ELSE IF style = 3 THEN <<122, Digit(j)>>
    ELSE <<99, Digit(j)>>

FieldVal(style, i, j) ==
    IF style = 2 THEN <<97 + i>>
    ELSE IF style = 3 THEN <<>>
    ELSE <<Digit(i), Digit(j)>>

RenderField(style, i, j) ==
    <<CH_LAB>> \o FieldName(style, j) \o <<CH_COLON>>
    \o <<Digit(Len(FieldVal(style, i, j)))>> \o TypeTag(style) \o <<CH_RAB>>
    \o FieldVal(style, i, j) \o Pad(style)

RECURSIVE RenderFields(_, _, _)
RenderFields(style, i, n) ==
    IF n = 0 THEN <<>>
    ELSE RenderFields(style, i, n - 1) \o RenderField(style, i, n)

RenderMarker(letters, mask, style) ==
    <<CH_LAB>> \o Spelling(letters, mask) \o <<CH_RAB>> \o Pad(style)

RenderHeader(p, eohmask) ==
    IF p.hashdr
    THEN p.text \o RenderFields(p.style, 0, p.nh)
         \o RenderMarker(ADI_STR_EOH, eohmask, p.style)
    ELSE <<>>

RenderRecord(p, i, eormask) ==
    RenderFields(p.style, i, p.nf)
    \o RenderMarker(ADI_STR_EOR, eormask, p.style)

RECURSIVE RenderRecords(_, _, _)
RenderRecords(p, n, eormask) ==
    IF n = 0 THEN <<>>
    ELSE RenderRecords(p, n - 1, eormask) \o RenderRecord(p, n, eormask)

\* the whole file, with the given spellings of its markers
RenderAs(p, eohmask, eormask) ==
    RenderHeader(p, eohmask) \o RenderRecords(p, p.nr, eormask)

Render(p) == RenderAs(p, p.mcase, p.mcase)

\* leading header text: "p" and "p:>q"
Texts == {<<112>>, <<112, CH_COLON, CH_RAB, 113>>}

HeaderPlans ==
    [hashdr : {TRUE}, text : Texts, nh : 0..MaxHeaderFields,
     mcase : {0, 5}, nr : 0..MaxRecords, nf : 0..MaxFields, style : Styles]

BarePlans ==
    [hashdr : {FALSE}, text : {<<>>}, nh : {0},
     mcase : {0, 5}, nr : 0..MaxRecords, nf : 0..MaxFields, style : Styles]

FilePlans == HeaderPlans \cup BarePlans

\* the physical file a plan describes
PlanSpecifier(style, i, j) ==
    [adif_name_canon |-> ToLowercase(FieldName(style, j)),
     adif_name |-> FieldName(style, j),
     adif_length |-> Len(FieldVal(style, i, j)),
     adif_bytes |-> FieldVal(style, i, j),
     adif_type |-> NoType]

PlanFile(p) ==
    [adi_header |->
        IF p.hashdr
        THEN [some |-> TRUE, adih_content |-> p.text,
              adih_fields |-> [j \in 1..p.nh |-> PlanSpecifier(p.style, 0, j)]]
        ELSE NoHeader,
     adi_records |->
        [i \in 1..p.nr |->
            [adir_fields |->
                [j \in 1..p.nf |-> PlanSpecifier(p.style, i, j)]]]]

InitAt(s) ==
    /\ aps_source = s.aps_source
    /\ aps_tokens = s.aps_tokens
    /\ aps_error = s.aps_error
    /\ aps_done = s.aps_done
    /\ pc = s.pc
    /\ ret = s.ret
    /\ lab_ret = s.lab_ret
    /\ header = s.header
    /\ header_content = s.header_content
    /\ header_fields = s.header_fields
    /\ records = s.records
    /\ adir_fields = s.adir_fields
    /\ fieldname = s.fieldname
    /\ fieldlength = s.fieldlength
    /\ fieldvalue = s.fieldvalue
    /\ returned = s.returned
    /\ consumed = s.consumed
    /\ result = s.result

\* adi_parse is called on a generated file, read in pieces of any of the
\* read sizes
Init ==
    \E p \in FilePlans, r \in ReadSizes :
        /\ plan = p
        /\ InitAt(Start(Render(p), r))
        /\ adi = NoFile
        /\ adif_result = NoAdif
        /\ tool = NoTool

Spec == Init /\ [][Next]_vars


----------------------------------------------------------------------------
(* Inputs: one data specifier, for adi_parse_data_specifier called alone.  *)

\* names as written, with their lower-case form: "f", "Call", "QSO_date"
\* and the two bytes of a non-ASCII letter
FieldNames ==
    { [written |-> <<102>>, lower |-> <<102>>],
      [written |-> <<67, 97, 108, 108>>, lower |-> <<99, 97, 108, 108>>],
      [written |-> <<81, 83, 79, 95, 100, 97, 116, 101>>,
       lower |-> <<113, 115, 111, 95, 100, 97, 116, 101>>],
      [written |-> <<195, 169>>, lower |-> <<195, 169>>] }

\* n bytes "v"
Filled(n) == [i \in 1..n |-> 118]

\* the declared length as written, and the bytes after the closing ">":
\* "3" with "<:>", ":::", "a>b" and "abc"; "0" with nothing; "2" with "kk";
\* "+1" with "7"; the maximum with as many bytes; one more than the
\* maximum with as many bytes, with two bytes and with none; "x", which
\* is no number, with nothing
LengthsAndValues ==
    { [lenstr |-> <<51>>, val |-> <<CH_LAB, CH_COLON, CH_RAB>>],
      [lenstr |-> <<51>>, val |-> <<CH_COLON, CH_COLON, CH_COLON>>],
      [lenstr |-> <<51>>, val |-> <<97, CH_RAB, 98>>],
      [lenstr |-> <<51>>, val |-> <<97, 98, 99>>],
      [lenstr |-> <<48>>, val |-> <<>>],
      [lenstr |-> <<50>>, val |-> <<107, 107>>],
      [lenstr |-> <<43, 49>>, val |-> <<55>>],
      [lenstr |-> <<49, 48, 50, 52>>, val |-> Filled(ADI_MAX_FIELDLEN)],
      [lenstr |-> <<49, 48, 50, 53>>, val |-> Filled(ADI_MAX_FIELDLEN + 1)],
      [lenstr |-> <<49, 48, 50, 53>>, val |-> <<107, 107>>],
      [lenstr |-> <<49, 48, 50, 53>>, val |-> <<>>],
      [lenstr |-> <<120>>, val |-> <<>>] }

\* filler after the value, free of "<": nothing, a line feed, ">:x y"
Fillers == {<<>>, <<CH_LF>>, <<CH_RAB, CH_COLON, 120, 32, 121>>}

\* what follows the length: ">", ":S>", "<", nothing
Terminators ==
    {<<CH_RAB>>, <<CH_COLON, 83, CH_RAB>>, <<CH_LAB>>, <<>>}

FieldPlans ==
    [name : FieldNames, lv : LengthsAndValues, pad : Fillers,
     term : Terminators]

\* "<" NAME ":" L ">"
RenderSpecifierHead(p) ==
    <<CH_LAB>> \o p.name.written \o <<CH_COLON>> \o p.lv.lenstr \o p.term

RenderSpecifier(p) == RenderSpecifierHead(p) \o p.lv.val \o p.pad

\* the length the specifier declares
Declared(p) == DigitsValue(Unsigned(p.lv.lenstr))

\* adi_parse_data_specifier is called on a state whose source is at the
\* start of a data specifier
StartField(s) == [s EXCEPT !.pc = "data_specifier"]

SpecField_Init ==
    \E p \in FieldPlans, r \in ReadSizes :
        /\ plan = p
        /\ InitAt(StartField(Start(RenderSpecifier(p), r)))
        /\ adi = NoFile
        /\ adif_result = NoAdif
        /\ tool = NoTool

NextField ==
    \/ AdiParseDataSpecifier
    \/ AdiParseValue
    \/ AdiParseConsumeUntilLab

SpecField == SpecField_Init /\ [][NextField]_vars

----------------------------------------------------------------------------
(* Claims about adi_parse_data_specifier called alone (SpecField).         *)

\* the source delivers its whole input to the first read
WholeRead == aps_source.read_max >= Len(aps_source.data)

\* the number of bytes up to and including the closing ">"
ValueStart == Len(RenderSpecifierHead(plan))

HasDelimiter(b) == \E i \in 1..Len(b) : IsDelimiter(b[i])

\* the input of the plan is `<NAME:L>V` and filler, with an ASCII name,
\* L within the maximum and V of exactly L delimiter-free bytes
PlainSpecifier(p) ==
    /\ p.term = <<CH_RAB>>
    /\ \A i \in 1..Len(p.name.written) : p.name.written[i] < 128
    /\ \A i \in 1..Len(p.lv.lenstr) : IsDigit(p.lv.lenstr[i])
    /\ Declared(p) = Len(p.lv.val)
    /\ Declared(p) <= ADI_MAX_FIELDLEN
    /\ ~HasDelimiter(p.lv.val)

PlainExpected(p) ==
    [adif_name_canon |-> p.name.lower,
     adif_name |-> p.name.written,
     adif_length |-> Len(p.lv.val),
     adif_bytes |-> p.lv.val,
     adif_type |-> NoType]

\* C2: the value adi_parse_data_specifier returns is, byte for byte, the
\* declared-length run of input after the specifier's closing ">", its
\* "<", ":" and ">" included.
C2_DelimitersAreLiteral ==
    (pc = "done" /\ WholeRead /\ Len(returned) = 1)
        => returned[1].adif_bytes =
               SubSeq(aps_source.data, ValueStart + 1,
                      ValueStart + Declared(plan))

\* C4: `<NAME:L>V` and filler free of "<" is parsed into the specifier
\* with name NAME, canonical name NAME in lower case, length L, value V.
C4_SpecifierDecoded ==
    (pc = "done" /\ PlainSpecifier(plan))
        => returned = <<PlainExpected(plan)>>

\* C6: a declared length above ADI_MAX_FIELDLEN ends the parse with a
\* malformed-input error while no byte after the closing ">" (or the
\* token that stands in its place) has been taken from the source and no value has been started, whatever follows;
\* a declared length equal to ADI_MAX_FIELDLEN is not refused for its
\* size, and its specifier is returned with all its bytes.
C6_MaximumLength ==
    /\ (Declared(plan) > ADI_MAX_FIELDLEN /\ plan.term # <<>>) =>
          /\ aps_source.pos <= ValueStart
          /\ pc # "value" /\ fieldvalue = <<>> /\ returned = <<>>
          /\ pc = "done" => result.kind = "ADIF_EBADINPUT"
    /\ (Declared(plan) = ADI_MAX_FIELDLEN /\ pc = "done") =>
          /\ result.msg # "max supported size"
          /\ (WholeRead /\ PlainSpecifier(plan))
                => returned = <<PlainExpected(plan)>>

\* a specifier declaring one byte more than the maximum, followed by as
\* many bytes, has been refused for its size
W6_OverlongRefused ==
    /\ pc = "done"
    /\ Declared(plan) = ADI_MAX_FIELDLEN + 1
    /\ Len(plan.lv.val) = ADI_MAX_FIELDLEN + 1
    /\ result = Err("ADIF_EBADINPUT", "max supported size")

\* the state after the five peeks has the tokens "<", a name, ":" and a
\* valid length at the front of the queue
ValidHead(a4) ==
    /\ ~Stopped(a4)
    /\ PeekToken(a4, 0) = ADI_TOK_LAB
    /\ adi_token_string(PeekToken(a4, 1)).ok
    /\ PeekToken(a4, 2) = ADI_TOK_COLON
    /\ adi_token_string(PeekToken(a4, 3)).ok
    /\ ParseUsize(adi_token_string(PeekToken(a4, 3)).str) >= 0
    /\ FieldLengthOk(ParseUsize(adi_token_string(PeekToken(a4, 3)).str))

TerminatorStep(a4) ==
    ValidHead(a4) =>
        /\ PeekToken(a4, 4) = ADI_TOK_COLON =>
               /\ pc' = "done"
               /\ result'.kind = "ADIF_ENOT_YET_IMPLEMENTED"
               /\ returned' = <<>>
        /\ PeekToken(a4, 4) \notin {ADI_TOK_COLON, ADI_TOK_RAB} =>
               /\ pc' = "done"
               /\ result'.kind = "ADIF_EBADINPUT"
               /\ returned' = <<>>

\* C11: when the tokens "<", name, ":" and a valid length are followed by
\* the token ":", adi_parse_data_specifier fails with the
\* not-yet-implemented error, not with the malformed-input error; when
\* they are followed by any token other than ">" and ":", it fails with
\* the malformed-input error.
C11_TypedNotImplemented ==
    [][pc = "data_specifier" =>
           TerminatorStep(SpecifierPeeks(PeekState(State, 0)))]_vars

\* `<NAME:L:S>` has been refused as not yet implemented
W11_TypedRefused ==
    /\ pc = "done"
    /\ plan.term = <<CH_COLON, 83, CH_RAB>>
    /\ result.kind = "ADIF_ENOT_YET_IMPLEMENTED"

\* `<NAME:L<` has been refused as malformed
W11_OtherTokenRefused ==
    /\ pc = "done"
    /\ plan.term = <<CH_LAB>>
    /\ WholeRead
    /\ Declared(plan) <= ADI_MAX_FIELDLEN
    /\ result = Err("ADIF_EBADINPUT", "expected right bracket")

----------------------------------------------------------------------------
(* Inputs: files that end early, for adi_parse (SpecTrunc).                *)

\* files with and without a header, one header specifier, one record of
\* two specifiers, in every style
TruncFiles ==
    [hashdr : BOOLEAN, text : {<<112, 113>>}, nh : {1}, mcase : {5},
     nr : {1}, nf : {2}, style : Styles \cup TypedStyles]

\* the first cut bytes of a file
TruncPlans ==
    UNION { [file : {f}, cut : 0..Len(Render(f))] : f \in TruncFiles }

RenderTrunc(p) == SubSeq(Render(p.file), 1, p.cut)

SpecTrunc_Init ==
    \E p \in TruncPlans, r \in ReadSizes :
        /\ plan = p
        /\ InitAt(Start(RenderTrunc(p), r))
        /\ adi = NoFile
        /\ adif_result = NoAdif
        /\ tool = NoTool

SpecTrunc == SpecTrunc_Init /\ [][Next]_vars

----------------------------------------------------------------------------
(* Claims about adi_parse on files that end early (SpecTrunc).             *)

\* the bytes "<", the three letters in any case, ">" occur in data
HasMarker(data, letters) ==
    \E i \in 1..(Len(data) - 4) :
        /\ data[i] = CH_LAB
        /\ byteseq_equal_ci(SubSeq(data, i + 1, i + 3), letters)
        /\ data[i + 4] = CH_RAB

StartsWithLab(data) == Len(data) > 0 /\ data[1] = CH_LAB

\* C8: when the input does not start with "<" and its end is reached with
\* no end-of-header marker before it, adi_parse fails with a
\* malformed-input error and returns no file.
C8_HeaderWithoutEoh ==
    ( /\ pc = "done"
      /\ ~StartsWithLab(aps_source.data)
      /\ ~HasMarker(aps_source.data, ADI_STR_EOH)
      /\ aps_done )
        => /\ result.kind = "ADIF_EBADINPUT"
           /\ result.file = NoFile

\* a header of text and one complete specifier, then the end of input
W8_EndAfterHeaderField ==
    /\ pc = "done"
    /\ ~StartsWithLab(aps_source.data)
    /\ ~HasMarker(aps_source.data, ADI_STR_EOH)
    /\ aps_done
    /\ Len(header_fields) = 1
    /\ result = Err("ADIF_EBADINPUT",
                    "unexpected end of input while reading header")

\* the input ends after the first "<" of the record and before the "<" of
\* its end-of-record marker
EndsInsideRecord(p) ==
    /\ p.cut > Len(RenderHeader(p.file, p.file.mcase))
    /\ p.cut <= Len(RenderHeader(p.file, p.file.mcase))
                  + Len(RenderFields(p.file.style, 1, p.file.nf))

\* C9: when the input ends inside a record, adi_parse returns a
\* malformed-input error.
C9_EndInsideRecord ==
    ( /\ pc = "done"
      /\ EndsInsideRecord(plan)
      /\ plan.file.style \notin TypedStyles
      /\ WholeRead )
        => result.kind = "ADIF_EBADINPUT"

----------------------------------------------------------------------------
(* Claims about adi_parse on well-formed files (Spec).                     *)

\* C1: for leading text, header specifiers, an end-of-header marker and
\* records closed by end-of-record markers, adi_parse succeeds and returns
\* the header text, the header fields and the records, all in input order.
C1_WellFormedParses ==
    (pc = "done" /\ plan.hashdr /\ plan.style = 1)
        => result = Ok(PlanFile(plan))

\* C3: adi_parse on the empty input succeeds with no header content, no
\* header fields and no records.
C3_EmptyInputSucceeds ==
    (pc = "done" /\ Len(aps_source.data) = 0) => result = Ok(NoFile)

\* C5: replacing the end-of-header marker, or every end-of-record marker,
\* by any other case spelling of it leaves the result of adi_parse
\* unchanged.
C5_MarkerCaseInsensitive ==
    pc = "done" =>
        \A m \in CaseMasks :
            /\ Run(RenderAs(plan, m, plan.mcase), aps_source.read_max) = result
            /\ Run(RenderAs(plan, plan.mcase, m), aps_source.read_max) = result

\* a file with a header and two records, its markers in mixed case, parsed
W5_MixedCaseParsed ==
    /\ pc = "done"
    /\ plan.hashdr /\ plan.nr = 2 /\ plan.mcase = 5
    /\ result = Ok(PlanFile(plan))

----------------------------------------------------------------------------
(* Inputs: physical files, for adif_parse_adi (SpecAdif).                  *)

Mk(name, bytes, type) ==
    [adif_name_canon |-> ToLowercase(name),
     adif_name |-> name,
     adif_length |-> Len(bytes),
     adif_bytes |-> bytes,
     adif_type |-> type]

\* record fields: Call=ab, CALL=cd, band=x with the tags "S", "s" and "N",
\* band with a two-byte letter, band with a byte that is not UTF-8
RecSpecs ==
    { Mk(<<67, 97, 108, 108>>, <<97, 98>>, NoType),
      Mk(<<67, 65, 76, 76>>, <<99, 100>>, NoType),
      Mk(<<98, 97, 110, 100>>, <<120>>, SomeType(<<83>>)),
      Mk(<<98, 97, 110, 100>>, <<120>>, SomeType(<<115>>)),
      Mk(<<98, 97, 110, 100>>, <<120>>, SomeType(<<78>>)),
      Mk(<<98, 97, 110, 100>>, <<195, 169>>, NoType),
      Mk(<<98, 97, 110, 100>>, <<255>>, NoType) }

\* header fields: ADIF_VER=3, adif_ver=3 with the tag "N", foo=x with the
\* tag "N", programid=p with the tag "S", foo=x, ProgramVersion=1,
\* created_timestamp=2, programid with a byte that is not UTF-8,
\* adif_ver=4
HdrSpecs ==
    { Mk(<<65, 68, 73, 70, 95, 86, 69, 82>>, <<51>>, NoType),
      Mk(<<80, 114, 111, 103, 114, 97, 109, 86, 101, 114, 115, 105, 111,
           110>>, <<49>>, NoType),
      Mk(ADIF_HEADER_CREATED_TIMESTAMP, <<50>>, NoType),
      Mk(ADIF_HEADER_ADIF_VER, <<51>>, SomeType(<<78>>)),
      Mk(<<102, 111, 111>>, <<120>>, SomeType(<<78>>)),
      Mk(ADIF_HEADER_PROGRAMID, <<112>>, SomeType(<<83>>)),
      Mk(<<102, 111, 111>>, <<120>>, NoType),
      Mk(ADIF_HEADER_PROGRAMID, <<255>>, NoType),
      Mk(ADIF_HEADER_ADIF_VER, <<52>>, NoType) }

SeqsUpTo(S, n) == UNION { [1..k -> S] : k \in 0..n }

\* every other record of a generated file
PlainRecord ==
    [adir_fields |-> <<Mk(<<67, 97, 108, 108>>, <<97, 98>>, NoType)>>]

\* the labels a caller gives: a file name, nothing
Labels == {"log.adi", ""}

\* a file of nr records, one of them (at) the given fields, with or
\* without a header, and the caller's label; a header of more than
\* MaxHeaderFields fields comes with one empty record
AdifPlans ==
    [hashdr : BOOLEAN, hfields : SeqsUpTo(HdrSpecs, MaxHeaderFields + 1),
     special : SeqsUpTo(RecSpecs, MaxFields),
     nr : 1..MaxRecords, at : 1..MaxRecords, label : Labels]

BuildAdi(p) ==
    [adi_header |->
        IF p.hashdr
        THEN [some |-> TRUE, adih_content |-> <<112>>,
              adih_fields |-> p.hfields]
        ELSE NoHeader,
     adi_records |->
        [i \in 1..p.nr |->
            IF i = p.at THEN [adir_fields |-> p.special] ELSE PlainRecord]]

SpecAdif_Init ==
    \E p \in AdifPlans :
        /\ p.at <= p.nr
        /\ p.hashdr \/ p.hfields = <<>>
        /\ Len(p.hfields) <= MaxHeaderFields
              \/ (p.special = <<>> /\ p.nr = 1 /\ p.label = "")
        /\ plan = p
        /\ InitAt([Start(<<>>, DEFAULT_BUF_SIZE) EXCEPT !.pc = "done"])
        /\ adi = BuildAdi(p)
        /\ adif_result = NoAdif
        /\ tool = NoTool

NextAdif == AdifParseAdi

SpecAdif == SpecAdif_Init /\ [][NextAdif]_vars

----------------------------------------------------------------------------
(* Claims about adif_parse_adi (SpecAdif).                                 *)

\* field j repeats the canonical name of an earlier field
Repeats(fields, j) ==
    \E i \in 1..(j - 1) :
        fields[i].adif_name_canon = fields[j].adif_name_canon

HasDuplicate(fields) == \E j \in 1..Len(fields) : Repeats(fields, j)

FirstRepeat(fields) ==
    CHOOSE j \in 1..Len(fields) :
        Repeats(fields, j) /\ \A i \in 1..(j - 1) : ~Repeats(fields, i)

FirstDuplicateRecord(a) ==
    CHOOSE r \in 1..Len(a.adi_records) :
        /\ HasDuplicate(a.adi_records[r].adir_fields)
        /\ \A q \in 1..(r - 1) : ~HasDuplicate(a.adi_records[q].adir_fields)

SomeDuplicate(a) ==
    \E r \in 1..Len(a.adi_records) :
        HasDuplicate(a.adi_records[r].adir_fields)

\* the field carries a type tag other than "S"
BadTag(adf) == adf.adif_type # NoType /\ adf.adif_type # SomeType(<<83>>)

Reserved(adf) ==
    adf.adif_name_canon \in
        {ADIF_HEADER_ADIF_VER, ADIF_HEADER_PROGRAMID,
         ADIF_HEADER_PROGRAMVERSION, ADIF_HEADER_CREATED_TIMESTAMP}

\* the fields of a file
RecordFields(a) ==
    UNION { { a.adi_records[r].adir_fields[j] :
                j \in 1..Len(a.adi_records[r].adir_fields) } :
            r \in 1..Len(a.adi_records) }

HeaderFields(a) ==
    { a.adi_header.adih_fields[j] : j \in 1..Len(a.adi_header.adih_fields) }

ReservedHeaderFields(a) == { f \in HeaderFields(a) : Reserved(f) }

AllDecodable(a) ==
    \A f \in RecordFields(a) \cup ReservedHeaderFields(a) :
        ~BadTag(f) /\ f.adif_bytes # <<255>>

\* C7: adif_parse_adi fails with a malformed-input error when two
\* specifiers of one record have the same canonical name; when nothing
\* else is wrong with the file the error names the 1-based index of the
\* first such record and the repeated canonical name; the same name in
\* two different records is not an error.
C7_DuplicateInRecord ==
    adif_done =>
        /\ SomeDuplicate(adi) => adif_result.kind = "ADIF_EBADINPUT"
        /\ (SomeDuplicate(adi) /\ AllDecodable(adi)) =>
              adif_result =
                  AdifErr("duplicate value for field",
                          FirstDuplicateRecord(adi),
                          adi.adi_records[FirstDuplicateRecord(adi)]
                             .adir_fields[
                                FirstRepeat(
                                    adi.adi_records[
                                        FirstDuplicateRecord(adi)]
                                       .adir_fields)].adif_name_canon)
        /\ (~SomeDuplicate(adi) /\ AllDecodable(adi)) =>
              /\ adif_result.kind = "Ok"
              /\ Len(adif_result.file.adif_records) = Len(adi.adi_records)

\* the second of two records holds Call and CALL, the first holds Call:
\* the error names record 2 and "call"
W7_SecondRecordDuplicate ==
    /\ adif_done
    /\ plan.nr = 2 /\ plan.at = 2
    /\ Len(plan.special) = 2
    /\ plan.special[1].adif_name = <<67, 97, 108, 108>>
    /\ plan.special[2].adif_name = <<67, 65, 76, 76>>
    /\ adif_result =
           AdifErr("duplicate value for field", 2, <<99, 97, 108, 108>>)

\* C10 as stated: adif_parse_adi fails with a malformed-input error for
\* every file in which any field, of the header or of a record, has a type
\* tag other than "S".
C10_AnyBadTagFails ==
    (adif_done /\ \E f \in RecordFields(adi) \cup HeaderFields(adi) :
                      BadTag(f))
        => adif_result.kind = "ADIF_EBADINPUT"

\* C10 amended: adif_parse_adi fails with a malformed-input error for
\* every file in which a record field, or a header field with one of the
\* four reserved names, has a type tag other than "S"; a file whose
\* decoded fields have the tag "S" or none, hold UTF-8 and repeat no name
\* within a record is accepted.
C10_DecodedBadTagFails ==
    adif_done =>
        /\ (\E f \in RecordFields(adi) \cup ReservedHeaderFields(adi) :
                BadTag(f))
              => adif_result.kind = "ADIF_EBADINPUT"
        /\ (AllDecodable(adi) /\ ~SomeDuplicate(adi))
              => adif_result.kind = "Ok"

\* a record field with the tag "s" has been refused
W10_LowerCaseTagRefused ==
    /\ adif_done
    /\ plan.special = <<Mk(<<98, 97, 110, 100>>, <<120>>, SomeType(<<115>>))>>
    /\ adif_result =
           AdifErr("expected string value", 0, <<98, 97, 110, 100>>)


\* the four reserved names with their slots
HeaderSlots ==
    { [slot |-> "adif_adif_version", name |-> ADIF_HEADER_ADIF_VER],
      [slot |-> "adif_program_id", name |-> ADIF_HEADER_PROGRAMID],
      [slot |-> "adif_program_version", name |-> ADIF_HEADER_PROGRAMVERSION],
      [slot |-> "adif_created_timestamp",
       name |-> ADIF_HEADER_CREATED_TIMESTAMP] }

\* the header fields of the file, in order; none without a header
HeaderSeq(a) == IF a.adi_header.some THEN a.adi_header.adih_fields ELSE <<>>

\* the positions of the header fields with the canonical name
Named(fields, name) ==
    { k \in 1..Len(fields) : fields[k].adif_name_canon = name }

Last(S) == CHOOSE k \in S : \A j \in S : j <= k

\* Some(value of the last header field with the name), None without one
SlotExpected(fields, name) ==
    IF Named(fields, name) = {} THEN <<>>
    ELSE <<fields[Last(Named(fields, name))].adif_bytes>>

\* the file without the header fields whose names are not reserved
OnlyReserved(a) ==
    IF a.adi_header.some
    THEN [a EXCEPT !.adi_header.adih_fields =
                       SelectSeq(@, LAMBDA f : Reserved(f))]
    ELSE a

\* C12: adif_parse_adi stores the decoded value of each header field
\* that has one of the four reserved canonical names in the slot of that
\* name (the last one when a name repeats), leaves a slot unset when no
\* header field has its name, and the other header fields change
\* nothing: the result, error or not, is the one of the file without
\* them.
C12_HeaderSlots ==
    adif_done =>
        /\ adif_result = adif_parse_adi(plan.label, OnlyReserved(adi))
        /\ adif_result.kind = "Ok" =>
               \A h \in HeaderSlots :
                   adif_result.file[h.slot] =
                       SlotExpected(HeaderSeq(adi), h.name)
        /\ (AllDecodable(adi) /\ ~SomeDuplicate(adi))
               => adif_result.kind = "Ok"

\* a header with programid=p and foo=x with the tag "N" has been
\* accepted: the program id is "p", the three other slots are unset
W12_ProgramIdStored ==
    /\ adif_done
    /\ Len(plan.hfields) = 2
    /\ plan.hfields[1].adif_name_canon = ADIF_HEADER_PROGRAMID
    /\ plan.hfields[2] = Mk(<<102, 111, 111>>, <<120>>, SomeType(<<78>>))
    /\ adif_result.kind = "Ok"
    /\ adif_result.file.adif_program_id = <<<<112>>>>
    /\ adif_result.file.adif_adif_version = <<>>
    /\ adif_result.file.adif_program_version = <<>>
    /\ adif_result.file.adif_created_timestamp = <<>>

\* the canonical names of the fields of a record
CanonNames(fields) ==
    { fields[j].adif_name_canon : j \in 1..Len(fields) }

\* the map holds exactly the fields, by canonical name
MapsFields(map, fields) ==
    /\ DOMAIN map = CanonNames(fields)
    /\ \A j \in 1..Len(fields) :
           map[fields[j].adif_name_canon] = fields[j].adif_bytes

\* C13: on success adif_parse_adi returns one logical record for each
\* physical record, in the same order, each mapping exactly the canonical
\* names of its record's fields to their values, and the label is the
\* caller's.
C13_RecordsInOrder ==
    (adif_done /\ adif_result.kind = "Ok") =>
        /\ Len(adif_result.file.adif_records) = Len(adi.adi_records)
        /\ \A r \in 1..Len(adi.adi_records) :
               MapsFields(adif_result.file.adif_records[r].adir_field_values,
                          adi.adi_records[r].adir_fields)
        /\ adif_result.file.adif_label = plan.label

\* two records, the first with band in two bytes of UTF-8 and the
\* second with Call, have been returned in this order under the label
W13_TwoRecordsLabelled ==
    /\ adif_done
    /\ adif_result.kind = "Ok"
    /\ plan.label = "log.adi"
    /\ plan.nr = 2 /\ plan.at = 1
    /\ plan.special = <<Mk(<<98, 97, 110, 100>>, <<195, 169>>, NoType)>>
    /\ adif_result.file.adif_label = "log.adi"
    /\ DOMAIN adif_result.file.adif_records[1].adir_field_values =
           {<<98, 97, 110, 100>>}
    /\ DOMAIN adif_result.file.adif_records[2].adir_field_values =
           {<<99, 97, 108, 108>>}


----------------------------------------------------------------------------
(* Inputs: files whose reader stops early or fails, for adi_parse          *)
(* (SpecIo).                                                               *)

\* the first cut bytes of a file, after which the reader is at its end or
\* returns an error
IoPlans ==
    UNION { [file : {f}, cut : 0..Len(Render(f)), fails : BOOLEAN] :
              f \in TruncFiles }

SpecIo_Init ==
    \E p \in IoPlans, r \in ReadSizes :
        /\ plan = p
        /\ InitAt(StartIo(RenderTrunc(p), r,
                          IF p.fails THEN p.cut ELSE NoFailure))
        /\ adi = NoFile
        /\ adif_result = NoAdif
        /\ tool = NoTool

SpecIo == SpecIo_Init /\ [][Next]_vars

\* the loops and calls of a parse, the later in a run of steps that
\* consume nothing the lower: adi_parse, the value loop, the filler loop,
\* the header loop, the records loop, the record loop, the call of
\* adi_parse_data_specifier, the return
Rank(p) ==
    IF p = "adi_parse" THEN 7
    ELSE IF p = "value" THEN 6
    ELSE IF p = "consume_until_lab" THEN 5
    ELSE IF p = "header" THEN 4
    ELSE IF p = "records" THEN 3
    ELSE IF p = "record" THEN 2
    ELSE IF p = "data_specifier" THEN 1
    ELSE 0

\* more than any rank
RankBase == Rank("adi_parse") + 1

\* the bytes of the input not yet consumed, then the rank
Measure(s) ==
    RankBase * (Len(s.aps_source.data) - Len(s.consumed)) + Rank(s.pc)

\* the step from s stays in its loop
SameLoop(s, n) == n.pc = s.pc

StepDecreases(s, n) ==
    /\ Measure(n) < Measure(s)
    /\ SameLoop(s, n) => Len(n.consumed) > Len(s.consumed)

\* C14: every call of adi_parse on a finite input returns: each step of
\* a call that has not returned lowers a measure that is a natural
\* number, and a step that stays in its loop (of the header, the
\* records, the record, the value, the filler) has taken at least one
\* token, of at least one byte, off the queue.
C14_Terminates ==
    /\ Measure(State) >= 0
    /\ pc # "done" => StepDecreases(State, Step(State))

\* a whole file with a header, a record and filler has been parsed
W14_WholeFileParsed ==
    /\ pc = "done"
    /\ result.kind = "Ok"
    /\ plan.file.hashdr
    /\ plan.file.style = 3
    /\ ~plan.fails
    /\ plan.cut = Len(Render(plan.file))
    /\ Len(result.file.adi_records) = 1


\* C15: whenever aps_done is true the queue is not empty and its last
\* token is the end-of-file token, which a peek at any offset at or
\* beyond its position returns.
C15_EofNeverRemoved ==
    aps_done =>
        /\ Len(aps_tokens) > 0
        /\ aps_tokens[Len(aps_tokens)] = ADI_TOK_EOF
        /\ \A n \in (Len(aps_tokens) - 1)..(Len(aps_tokens) + 1) :
               PeekToken(PeekCall(State, n), n) = ADI_TOK_EOF


\* the bytes the source has not delivered to a token yet
Unread(src) == SubSeq(src.data, src.pos + 1, Len(src.data))

\* C16: the bytes of the tokens consumed, then the bytes of the tokens in
\* the queue, then the bytes the source has not delivered yet are the
\* input, in every reachable state of a parse.
C16_InputConserved ==
    consumed \o Flatten(aps_tokens) \o Unread(aps_source) = aps_source.data

\* a parse has consumed bytes, holds tokens in its queue and has input
\* left to read
W16_ThreeParts ==
    /\ pc # "done"
    /\ Len(consumed) > 0
    /\ Len(Flatten(aps_tokens)) > 1
    /\ Len(Unread(aps_source)) > 0


\* the panic of a failed assertion of adi_parse_consume_tokens
ConsumePanic == Err("panic", "adi_parse_consume_tokens: assertion failed")

\* C17: adi_parse_consume_tokens is always called with a count that is
\* at most the length of the queue and with the fault flag unset: its
\* assertions never fail, neither in this state nor in the step the code
\* takes next.
C17_ConsumeAssertionsHold ==
    /\ result # ConsumePanic
    /\ pc # "done" => Step(State).result # ConsumePanic

\* a parse that has consumed tokens has ended on an error of the reader,
\* with the fault flag set
W17_ConsumedThenFaulted ==
    /\ pc = "done"
    /\ aps_error
    /\ result.kind = "ADIF_EIO"
    /\ Len(consumed) > 0
    /\ Len(adir_fields) > 0


\* C18: adi_parse_data_specifier is entered only when the front token of
\* the queue is "<": at every call the peek of the entry assertion
\* returns that token.
C18_EntryAtLab ==
    pc = "data_specifier" =>
        /\ ~Stopped(PeekState(State, 0))
        /\ PeekToken(PeekState(State, 0), 0) = ADI_TOK_LAB


\* the values of Result::Err
ErrorKinds == {"ADIF_EIO", "ADIF_EBADINPUT", "ADIF_ENOT_YET_IMPLEMENTED"}

\* the offsets the parser peeks at
PeekOffsets == 0..4

\* the panic of the assertion at the top of adi_parse_advance_tokens
AdvancePanic(s) ==
    PanicMsg(s, "adi_parse_advance_tokens: assertion failed")

\* C19 as stated: once the tokenizer has returned an error the fault flag
\* is set, and a peek made then returns an error without calling the
\* tokenizer.
C19_LaterPeekReturnsError ==
    aps_source.err =>
        /\ aps_error
        /\ \A n \in PeekOffsets :
               /\ PeekCall(State, n).result.kind \in ErrorKinds
               /\ PeekCall(State, n).aps_source = aps_source

\* C19 amended: once the tokenizer has returned an error the fault flag
\* is set and the parse has returned that error, in the same step, so
\* that the flag stays set, the tokenizer is not called again and no
\* peek is made; a peek made then does not return an error: it fails the
\* assertion at the top of adi_parse_advance_tokens, a panic, with the
\* source and the queue untouched.
C19_FaultEndsParse ==
    /\ aps_source.err => aps_error
    /\ aps_error =>
          /\ aps_source.err
          /\ pc = "done"
          /\ result.kind = "ADIF_EIO"
          /\ \A n \in PeekOffsets : PeekCall(State, n) = AdvancePanic(State)

\* a reader read one byte at a time has failed while tokens were in the
\* queue
W19_FaultedWithTokens ==
    /\ aps_error
    /\ aps_source.err
    /\ aps_source.read_max = 1
    /\ Len(aps_tokens) > 1
    /\ result.kind = "ADIF_EIO"


IsPrefix(p, q) == Len(p) <= Len(q) /\ SubSeq(q, 1, Len(p)) = p

\* a is the state after a peek at offset n made in state s: the queue of
\* s is a prefix of the queue of a, nothing was consumed, and the same
\* peek made again changes nothing and returns the same token
PeekFrame(s, a, n) ==
    /\ IsPrefix(s.aps_tokens, a.aps_tokens)
    /\ a.consumed = s.consumed
    /\ ~Stopped(a) =>
          /\ Len(a.aps_tokens) > 0
          /\ PeekCall(a, n) = a
          /\ PeekToken(PeekCall(a, n), n) = PeekToken(a, n)

\* C20: a peek removes and reorders nothing: the queue before it is a
\* prefix of the queue after it, and a second peek at the same offset,
\* with no consume in between, returns the same token; at every offset,
\* in every state of a parse that has not ended.
C20_PeekKeepsQueue ==
    ~Stopped(State) =>
        \A n \in PeekOffsets : PeekFrame(State, PeekCall(State, n), n)

\* a peek at offset 2 made with one token in the queue reads two more
W20_PeekReadsTwo ==
    /\ pc = "record"
    /\ Len(aps_tokens) = 1
    /\ ~Stopped(PeekCall(State, 2))
    /\ Len(PeekCall(State, 2).aps_tokens) = 3


----------------------------------------------------------------------------
(* Claims about the tokenizer and the parsers of adi.rs (SpecIo, Spec,     *)
(* SpecField).                                                             *)

Delimiters == {CH_LAB, CH_COLON, CH_RAB}

\* the token of a delimiter byte
DelimiterToken(c) ==
    IF c = CH_LAB THEN ADI_TOK_LAB
    ELSE IF c = CH_COLON THEN ADI_TOK_COLON
    ELSE ADI_TOK_RAB

\* r is a raw-byte-run read from src: at least one byte, none of them a
\* delimiter, the bytes of the input at the position of src, all consumed
IsRunOf(src, r) ==
    /\ r.tok.t = "BYTES"
    /\ Len(r.tok.b) >= 1
    /\ \A i \in 1..Len(r.tok.b) : r.tok.b[i] \notin Delimiters
    /\ r.tok.b = SubSeq(src.data, src.pos + 1, src.pos + Len(r.tok.b))
    /\ r.src.pos = src.pos + Len(r.tok.b)

\* r is what adi_import_read_token returns on src, whose reader has not
\* failed
ReadTokenContract(src, r) ==
    /\ r.src.data = src.data
    /\ src.pos = Len(src.data) =>
          IF src.fail_at = NoFailure
          THEN r.ok /\ r.tok = ADI_TOK_EOF /\ r.src.pos = src.pos
          ELSE ~r.ok /\ r.src.pos = src.pos
    /\ src.pos < Len(src.data) =>
          /\ r.ok
          /\ IF src.data[src.pos + 1] \in Delimiters
             THEN /\ r.tok = DelimiterToken(src.data[src.pos + 1])
                  /\ r.src.pos = src.pos + 1
             ELSE IsRunOf(src, r)

\* C21: adi_import_read_token returns the one-byte token of "<", ":" or
\* ">" and consumes one byte when that byte is next; returns end-of-file
\* and consumes nothing when no byte remains; otherwise returns a run of
\* at least one byte, none a delimiter, and consumes exactly its bytes.
C21_ReadTokenContract ==
    ~aps_source.err =>
        ReadTokenContract(aps_source, adi_import_read_token(aps_source))

\* the next token of a source that has been read from is a run of two
\* bytes that a delimiter ends
W21_RunBeforeDelimiter ==
    /\ ~aps_source.err
    /\ aps_source.pos > 0
    /\ adi_import_read_token(aps_source).ok
    /\ adi_import_read_token(aps_source).tok.t = "BYTES"
    /\ Len(adi_import_read_token(aps_source).tok.b) = 2
    /\ adi_import_read_token(aps_source).src.pos < Len(aps_source.data)
    /\ aps_source.data[adi_import_read_token(aps_source).src.pos + 1]
          \in Delimiters


----------------------------------------------------------------------------
(* Inputs: one file with one byte to choose at one place, for adi_parse    *)
(* (SpecBytes).                                                            *)

\* the byte: the first of a two-byte letter, BEL, carriage return, "x"
ProbeBytes == {195, 7, CH_CR, 120}

\* the places: header text, then name, length, value and filler of the
\* header field, then name, length, value and filler of the record field
NamePlaces == {"hname", "rname"}
LengthPlaces == {"hlength", "rlength"}
ValuePlaces == {"hvalue", "rvalue"}
FillerPlaces == {"hfiller", "rfiller"}
FreePlaces == {"text"} \cup ValuePlaces \cup FillerPlaces
Places == FreePlaces \cup NamePlaces \cup LengthPlaces

BytePlans == [b : ProbeBytes, at : Places]

\* the byte b if the place k is the chosen one
Added(p, k) == IF p.at = k THEN <<p.b>> ELSE <<>>

\* the one byte of a value: b if the place k is the chosen one, else "v"
ValueByte(p, k) == IF p.at = k THEN <<p.b>> ELSE <<118>>

\* "p" B "<h" B ":1" B ">" V LF B "<eoh>" "<c" B ":1" B ">" V LF B "<eor>"
RenderBytes(p) ==
    <<112>> \o Added(p, "text")
    \o <<CH_LAB, 104>> \o Added(p, "hname")
    \o <<CH_COLON, 49>> \o Added(p, "hlength")
    \o <<CH_RAB>> \o ValueByte(p, "hvalue") \o <<CH_LF>> \o Added(p, "hfiller")
    \o <<CH_LAB>> \o ADI_STR_EOH \o <<CH_RAB>>
    \o <<CH_LAB, 99>> \o Added(p, "rname")
    \o <<CH_COLON, 49>> \o Added(p, "rlength")
    \o <<CH_RAB>> \o ValueByte(p, "rvalue") \o <<CH_LF>> \o Added(p, "rfiller")
    \o <<CH_LAB>> \o ADI_STR_EOR \o <<CH_RAB>>

SpecBytes_Init ==
    \E p \in BytePlans, r \in ReadSizes :
        /\ plan = p
        /\ InitAt(Start(RenderBytes(p), r))
        /\ adi = NoFile
        /\ adif_result = NoAdif
        /\ tool = NoTool

SpecBytes == SpecBytes_Init /\ [][Next]_vars

\* the byte is not ASCII, or is a control byte other than CR and LF
BadByte(b) == b >= 128 \/ ((b < 32 \/ b = 127) /\ b # CH_CR /\ b # CH_LF)

\* the same file with "x" at the chosen place
WithPlainByte(p) == [p EXCEPT !.b = 120]

\* the file that the plan's input stands for: header text, one header
\* field, one record of one field
BytesExpected(p) ==
    [adi_header |->
        [some |-> TRUE,
         adih_content |-> <<112>> \o Added(p, "text"),
         adih_fields |->
            <<[adif_name_canon |-> <<104>> \o Added(p, "hname"),
               adif_name |-> <<104>> \o Added(p, "hname"),
               adif_length |-> 1,
               adif_bytes |-> ValueByte(p, "hvalue"),
               adif_type |-> NoType]>>],
     adi_records |->
        <<[adir_fields |->
            <<[adif_name_canon |-> <<99>> \o Added(p, "rname"),
               adif_name |-> <<99>> \o Added(p, "rname"),
               adif_length |-> 1,
               adif_bytes |-> ValueByte(p, "rvalue"),
               adif_type |-> NoType]>>]>>]

\* C22 as stated: a byte that is not ASCII, or a control byte other than
\* CR and LF, anywhere in a raw-byte-run makes the parse fail with a
\* malformed-input error.
C22_BadByteAnywhereFails ==
    (pc = "done" /\ BadByte(plan.b)) => result.kind = "ADIF_EBADINPUT"

\* C22 amended: such a byte in a field name or in a declared length makes
\* the parse fail with a malformed-input error; in header text, in a
\* value or in filler it is a byte like any other: the parse ends as it
\* does with "x" in its place and, when it succeeds, the byte is in the
\* header text or in the value unchanged.
C22_BadByteInNameOrLength ==
    pc = "done" =>
        /\ (BadByte(plan.b) /\ plan.at \in NamePlaces \cup LengthPlaces)
              => result.kind = "ADIF_EBADINPUT"
        /\ plan.at \in FreePlaces =>
              /\ result.kind =
                     Run(RenderBytes(WithPlainByte(plan)),
                         aps_source.read_max).kind
              /\ result.kind = "Ok" => result.file = BytesExpected(plan)
        /\ (plan.at \in FreePlaces /\ WholeRead) => result.kind = "Ok"

\* a file whose record value is a byte that is not ASCII has been parsed
W22_NonAsciiValueParsed ==
    /\ pc = "done"
    /\ plan.b = 195
    /\ plan.at = "rvalue"
    /\ result = Ok(BytesExpected(plan))


\* the first byte of the input is "<"
StartsAtLab(data) == Len(data) > 0 /\ data[1] = CH_LAB

\* a is the state after the first peek of adi_parse: the step goes to the
\* header parser exactly when the token peeked is not "<"
HeaderDecision(a) ==
    /\ ~Stopped(a)
    /\ (pc' = "header") <=> (PeekToken(a, 0) # ADI_TOK_LAB)
    /\ (PeekToken(a, 0) = ADI_TOK_LAB) <=> StartsAtLab(aps_source.data)

\* C23: adi_parse runs the header parser exactly when the first token of
\* the input is not "<", and in every successful parse the header
\* returned is absent if and only if the first byte of the input is "<".
C23_HeaderIffNoLab ==
    /\ [][pc = "adi_parse" => HeaderDecision(PeekState(State, 0))]_vars
    /\ []((pc = "done" /\ result.kind = "Ok") =>
            (~result.file.adi_header.some
                <=> StartsAtLab(aps_source.data)))

\* a file that begins with "<" has been parsed into two records and no
\* header
W23_NoHeaderTwoRecords ==
    /\ pc = "done"
    /\ result.kind = "Ok"
    /\ StartsAtLab(aps_source.data)
    /\ ~result.file.adi_header.some
    /\ Len(result.file.adi_records) = 2


\* a is the state after the peek of the header loop, t the token peeked:
\* a run, a colon or a right bracket goes to the end of the header text
\* and off the queue, and the loop goes on
HeaderTextStep(a, t) ==
    (~Stopped(a) /\ t.t \in {"BYTES", "COLON", "RAB"}) =>
        /\ header_content' = header_content \o TokenBytes(t)
        /\ aps_tokens' = Tail(a.aps_tokens)
        /\ consumed' = consumed \o TokenBytes(t)
        /\ header_fields' = header_fields
        /\ pc' = "header"

\* C24: every raw-byte-run, colon and right-bracket token that the header
\* parser finds at the front of the queue is appended to the header text
\* unchanged, in input order, and consumed.
C24_HeaderTextVerbatim ==
    [][pc = "header" =>
           HeaderTextStep(PeekState(State, 0),
                          PeekToken(PeekState(State, 0), 0))]_vars

\* the header parser holds the text "p:>q", taken from four tokens
W24_TextWithDelimiters ==
    /\ pc = "header"
    /\ header_content = <<112, CH_COLON, CH_RAB, 113>>
    /\ consumed = header_content


\* C25: every record of a successfully parsed file holds at least one
\* specifier.
C25_RecordsNotEmpty ==
    (pc = "done" /\ result.kind = "Ok") =>
        \A r \in 1..Len(result.file.adi_records) :
            Len(result.file.adi_records[r].adir_fields) >= 1


\* the bytes put after a marker: nothing, a line feed, ">:x"
Gaps == {<<>>, <<CH_LF>>, <<CH_RAB, CH_COLON, 120>>}

\* a marker followed by the gap
RenderMarkerGap(letters, mask, gap) ==
    <<CH_LAB>> \o Spelling(letters, mask) \o <<CH_RAB>> \o gap

RECURSIVE RenderRecordsGap(_, _, _)
RenderRecordsGap(p, n, gap) ==
    IF n = 0 THEN <<>>
    ELSE RenderRecordsGap(p, n - 1, gap)
         \o RenderFields(p.style, n, p.nf)
         \o RenderMarkerGap(ADI_STR_EOR, p.mcase, gap)

\* the file of the plan with the gap after every marker, in place of the
\* filler of its style
RenderGap(p, gap) ==
    (IF p.hashdr
     THEN p.text \o RenderFields(p.style, 0, p.nh)
          \o RenderMarkerGap(ADI_STR_EOH, p.mcase, gap)
     ELSE <<>>)
    \o RenderRecordsGap(p, p.nr, gap)

\* read sizes of a few bytes more
LongerReadSizes == ReadSizes \cup {MaxRead + 1, MaxRead + 2}

\* adi_parse is called on a generated file whose records have fields,
\* read in pieces of any of these sizes (SpecGap)
SpecGap_Init ==
    \E p \in FilePlans, r \in LongerReadSizes :
        /\ p.nf > 0
        /\ plan = p
        /\ InitAt(Start(Render(p), r))
        /\ adi = NoFile
        /\ adif_result = NoAdif
        /\ tool = NoTool

SpecGap == SpecGap_Init /\ [][Next]_vars

\* C26: the bytes between the end-of-header marker and the first "<" of a
\* record, and between an end-of-record marker and the next "<" or the
\* end of the input, are discarded: whatever they are, ":" and ">"
\* included, the result of adi_parse is the same.
C26_GapsDiscarded ==
    pc = "done" =>
        \A gap \in Gaps :
            Run(RenderGap(plan, gap), aps_source.read_max) = result


\* the panic of the assertion on the length of the value (line 624)
LengthPanic == Err("panic", "adi_parse_data_specifier: value length")

\* the specifier has as many value bytes as it declares, and no type
ExactLength(adf) ==
    /\ Len(adf.adif_bytes) = adf.adif_length
    /\ adf.adif_type = NoType

\* C27: every specifier that adi_parse_data_specifier returns has a value
\* of exactly the declared number of bytes, also when the value spans
\* several tokens or the last run is longer than the bytes still needed,
\* and its type is unset; the assertion on the length never fails.
C27_ValueHasDeclaredLength ==
    /\ \A i \in 1..Len(returned) :
          /\ ExactLength(returned[i])
          /\ returned[i].adif_length = fieldlength
    /\ result # LengthPanic
    /\ pc # "done" => Step(State).result # LengthPanic

\* the two bytes "kk" have been taken from the run "kk" and line feed
W27_RunLongerThanNeeded ==
    /\ pc = "done"
    /\ WholeRead
    /\ plan.lv.val = <<107, 107>>
    /\ plan.pad = <<CH_LF>>
    /\ Len(returned) = 1
    /\ returned[1].adif_bytes = <<107, 107>>
    /\ returned[1].adif_length = 2


\* the step is the return of adi_parse_data_specifier to the header loop
\* or to the record loop
SpecifierReturns ==
    /\ pc = "consume_until_lab"
    /\ lab_ret = "data_specifier"
    /\ pc' \in {"header", "record"}

\* C28: when adi_parse_data_specifier returns a specifier, the front
\* token of the queue is "<" or end-of-file, and the bytes consumed
\* after the value are part of no result: neither of the specifier, which
\* has its declared length, nor of the header text.
C28_ReturnsAtLabOrEof ==
    [][SpecifierReturns =>
           /\ Len(aps_tokens') > 0
           /\ aps_tokens'[1] \in {ADI_TOK_LAB, ADI_TOK_EOF}
           /\ header_content' = header_content
           /\ Len(header_fields') + Len(adir_fields')
                 = Len(header_fields) + Len(adir_fields) + 1
           /\ \A i \in 1..Len(adir_fields') :
                 Len(adir_fields'[i].adif_bytes) = adir_fields'[i].adif_length
           /\ \A i \in 1..Len(header_fields') :
                 Len(header_fields'[i].adif_bytes)
                     = header_fields'[i].adif_length]_vars

\* a specifier followed by the filler ">:x" has been returned to the
\* record loop with "<" at the front of the queue
W28_FillerConsumed ==
    /\ pc = "record"
    /\ plan.style = 3
    /\ Len(adir_fields) = 1
    /\ Len(aps_tokens) > 0
    /\ aps_tokens[1] = ADI_TOK_LAB
    /\ Len(consumed) > 3
    /\ SubSeq(consumed, Len(consumed) - 2, Len(consumed))
           = <<CH_RAB, CH_COLON, 120>>


\* a is the state after the peek of the value loop: when the token is
\* end-of-file the call ends with a malformed-input error and no
\* specifier is added or returned
ValueEofStep(a) ==
    (~Stopped(a) /\ PeekToken(a, 0) = ADI_TOK_EOF) =>
        /\ pc' = "done"
        /\ result'.kind = "ADIF_EBADINPUT"
        /\ header_fields' = header_fields
        /\ adir_fields' = adir_fields
        /\ records' = records
        /\ returned' = <<>>

\* C29: when the end of the input is reached after a valid
\* `<name:length>` and before the declared number of value bytes has been
\* accumulated, adi_parse_data_specifier fails with a malformed-input
\* error and no specifier is produced.
C29_EofInValue ==
    [][(pc = "value" /\ fieldlength > Len(fieldvalue))
           => ValueEofStep(PeekState(State, 0))]_vars

\* the input ended after one of the two bytes a record field declares
W29_EndedInValue ==
    /\ pc = "done"
    /\ ret = "record"
    /\ fieldlength = 2
    /\ Len(fieldvalue) = 1
    /\ aps_done
    /\ result = Err("ADIF_EBADINPUT", "unexpected end of input in value")


----------------------------------------------------------------------------
(* Inputs: fields that bear the names of the end markers (SpecMarker).     *)

\* "eoh", "EoH" and "h"; "eor", "eOR" and "c"
HeaderNames == {ADI_STR_EOH, <<69, 111, 72>>, <<104>>}
RecordNames == {ADI_STR_EOR, <<101, 79, 82>>, <<99>>}

MarkerPlans == [hname : HeaderNames, rname : RecordNames]

\* "p" "<" HNAME ":1>7" LF "<eoh>" "<" RNAME ":1>8" LF "<eor>"
RenderNamed(p) ==
    <<112, CH_LAB>> \o p.hname \o <<CH_COLON, 49, CH_RAB, 55, CH_LF>>
    \o <<CH_LAB>> \o ADI_STR_EOH \o <<CH_RAB>>
    \o <<CH_LAB>> \o p.rname \o <<CH_COLON, 49, CH_RAB, 56, CH_LF>>
    \o <<CH_LAB>> \o ADI_STR_EOR \o <<CH_RAB>>

SpecMarker_Init ==
    \E p \in MarkerPlans, r \in ReadSizes :
        /\ plan = p
        /\ InitAt(Start(RenderNamed(p), r))
        /\ adi = NoFile
        /\ adif_result = NoAdif
        /\ tool = NoTool

SpecMarker == SpecMarker_Init /\ [][Next]_vars

\* the field `<NAME:1>V`
NamedField(name, v) ==
    [adif_name_canon |-> ToLowercase(name),
     adif_name |-> name,
     adif_length |-> 1,
     adif_bytes |-> <<v>>,
     adif_type |-> NoType]

\* the file that the plan's input stands for: one header field and one
\* record of one field, under the names written
NamedExpected(p) ==
    [adi_header |-> [some |-> TRUE,
                     adih_content |-> <<112>>,
                     adih_fields |-> <<NamedField(p.hname, 55)>>],
     adi_records |-> <<[adir_fields |-> <<NamedField(p.rname, 56)>>]>>]

\* the queue of state a starts with "<" and the name of the marker, in
\* any case
MarkerAhead(a, marker) ==
    /\ ~Stopped(a)
    /\ Len(a.aps_tokens) >= 3
    /\ PeekToken(a, 0) = ADI_TOK_LAB
    /\ PeekToken(a, 1).t = "BYTES"
    /\ byteseq_equal_ci(PeekToken(a, 1).b, marker)

\* the header ends at "<eoh" ">" and goes on with a data specifier at
\* "<eoh" ":"
HeaderMarkerStep(a) ==
    MarkerAhead(a, ADI_STR_EOH) =>
        /\ PeekToken(a, 2) = ADI_TOK_RAB =>
               /\ header'.some
               /\ pc' = "consume_until_lab"
               /\ lab_ret' = "records"
        /\ PeekToken(a, 2) = ADI_TOK_COLON =>
               /\ header' = header
               /\ pc' = "data_specifier"
               /\ ret' = "header"

\* the record ends at "<eor" ">" and goes on with a data specifier at
\* "<eor" ":"
RecordMarkerStep(a) ==
    MarkerAhead(a, ADI_STR_EOR) =>
        /\ PeekToken(a, 2) = ADI_TOK_RAB =>
               /\ pc' = "consume_until_lab"
               /\ lab_ret' = "record"
        /\ PeekToken(a, 2) = ADI_TOK_COLON =>
               /\ records' = records
               /\ pc' = "data_specifier"
               /\ ret' = "record"

ThreePeeks(s) == PeekState(PeekState(PeekState(s, 0), 1), 2)

\* C30: "<" and the name "eoh" (in the header) or "eor" (in a record), in
\* any case, is the end marker only when the next token is ">"; when a
\* colon follows, it is parsed as an ordinary specifier of that name and
\* the section does not end.
C30_MarkerNeedsRab ==
    /\ [][/\ pc = "header" => HeaderMarkerStep(ThreePeeks(State))
          /\ pc = "record" => RecordMarkerStep(ThreePeeks(State))]_vars
    /\ [](pc = "done" /\ WholeRead => result = Ok(NamedExpected(plan)))

\* a file parsed with a header field named EoH and a record field named
\* eor
W30_FieldsNamedAsMarkers ==
    /\ pc = "done"
    /\ result.kind = "Ok"
    /\ plan.hname = <<69, 111, 72>>
    /\ plan.rname = ADI_STR_EOR
    /\ result.file.adi_header.adih_fields[1].adif_name_canon = ADI_STR_EOH
    /\ result.file.adi_records[1].adir_fields[1].adif_name = ADI_STR_EOR


----------------------------------------------------------------------------
(* Claims about adif.rs, the tools and the lookahead queue.                *)

\* a record field of the file has value bytes that are not UTF-8
BadRecordValue(a) ==
    \E r \in 1..Len(a.adi_records) :
        \E k \in 1..Len(a.adi_records[r].adir_fields) :
            ~IsUtf8(a.adi_records[r].adir_fields[k].adif_bytes)

\* a header field under one of the four reserved names has value bytes
\* that are not UTF-8
BadReservedValue(a) ==
    /\ a.adi_header.some
    /\ \E k \in 1..Len(a.adi_header.adih_fields) :
           /\ HeaderSlot(a.adi_header.adih_fields[k].adif_name_canon) # ""
           /\ ~IsUtf8(a.adi_header.adih_fields[k].adif_bytes)

\* C31: adif_parse_adi fails with a malformed-input error when the value
\* bytes of a record field, or of a header field with one of the four
\* reserved names, are not valid UTF-8; no logical file is returned then.
C31_InvalidUtf8Fails ==
    (adif_done /\ (BadRecordValue(adi) \/ BadReservedValue(adi))) =>
        /\ adif_result.kind = "ADIF_EBADINPUT"
        /\ adif_result.file = NoAdifFile

\* the only fault of the file is the value of its header field programid
W31_BadProgramId ==
    /\ adif_done
    /\ BadReservedValue(adi)
    /\ ~BadRecordValue(adi)
    /\ Len(adi.adi_header.adih_fields) = 1
    /\ Len(adi.adi_records) = 2
    /\ adif_result.msg = "value contained invalid bytes for UTF-8 string"
    /\ adif_result.field = ADIF_HEADER_PROGRAMID

\* the only fault of the file is the value of a field of its second record
W31_BadRecordValue ==
    /\ adif_done
    /\ ~adi.adi_header.some
    /\ plan.at = 2
    /\ plan.special = <<Mk(<<98, 97, 110, 100>>, <<255>>, NoType)>>
    /\ adif_result.msg = "value contained invalid bytes for UTF-8 string"


----------------------------------------------------------------------------
(* The dump tool (src/bin/adif_dump.rs) and the diff tool                  *)
(* (src/bin/adif_diff.rs), run without options.  What a tool prints on its *)
(* standard output is the sequence out; a failed index or assertion ends   *)
(* the run in a panic.                                                     *)

\* the error of the physical parse, as the logical parse's caller sees it
FromAdiError(r) ==
    [kind |-> r.kind, msg |-> r.msg, which |-> 0, field |-> <<>>,
     file |-> NoAdifFile]

\* adif_parse on the result r of adi_parse
AdifParseOf(label, r) ==
    IF r.kind = "Ok" THEN adif_parse_adi(label, r.file)
    ELSE FromAdiError(r)

\* adif::adif_parse(label, source): the physical parse, then the logical
\* one; the first error is returned
adif_parse(label, data, read_max) == AdifParseOf(label, Run(data, read_max))

QSO_DATE == <<113, 115, 111, 95, 100, 97, 116, 101>>
CALL == <<99, 97, 108, 108>>
GRIDSQUARE == <<103, 114, 105, 100, 115, 113, 117, 97, 114, 101>>

\* a tool that has not parsed anything yet
ToolStart(name, first) ==
    [name |-> name, pc |-> first,
     adf1 |-> NoAdifFile, adf2 |-> NoAdifFile,
     i |-> 0, out |-> <<>>,
     nmatched |-> 0, nunmatched1 |-> 0, ndiff |-> 0,
     ok |-> FALSE, errmsg |-> NoAdif,
     stderr |-> <<>>, exited |-> FALSE, status |-> 0]

ToolPanic(t) == [t EXCEPT !.pc = "panicked"]

\* return Err(format!("{}", error)) to main
ToolErr(t, error) ==
    [t EXCEPT !.ok = FALSE, !.errmsg = error, !.pc = "main"]

\* return Ok(()) to main
ToolOk(t) == [t EXCEPT !.ok = TRUE, !.pc = "main"]

\* adif_dump_file, lines 122-125, and adif_dump up to its loop; res is
\* what adif_parse returned
DumpParsed(t, res) ==
    IF res.kind = "panic" THEN ToolPanic(t)
    ELSE IF res.kind = "Ok"
    THEN [t EXCEPT !.adf1 = res.file,
                   !.out = <<[line |-> "ADIF file", rec |-> 0]>>,
                   !.i = 1,
                   !.pc = "dump_records"]
    ELSE ToolErr(t, res)

\* adif_dump's loop over the records, one record: adif_dump_one without
\* filters and columns
DumpOne(t) ==
    IF t.i > Len(t.adf1.adif_records) THEN ToolOk(t)
    ELSE [t EXCEPT !.out = Append(@, [line |-> "RECORD", rec |-> t.i]),
                   !.i = @ + 1]

\* adif_diff_streams, lines 80-83
DiffFirstParsed(t, res) ==
    IF res.kind = "panic" THEN ToolPanic(t)
    ELSE IF res.kind = "Ok"
    THEN [t EXCEPT !.adf1 = res.file, !.pc = "diff_parse2"]
    ELSE ToolErr(t, res)

\* a second parse whose error leaves an empty file to compare with
DiffSecondIgnored(t, res) ==
    IF res.kind = "panic" THEN ToolPanic(t)
    ELSE IF res.kind = "Ok"
    THEN [t EXCEPT !.adf2 = res.file, !.i = 1, !.pc = "diff_records"]
    ELSE [t EXCEPT !.adf2 = NoAdifFile, !.i = 1, !.pc = "diff_records"]

\* adif_diff_streams, lines 85-95
DiffSecondParsed(t, res) ==
    IF res.kind = "panic" THEN ToolPanic(t)
    ELSE IF res.kind = "Ok"
    THEN [t EXCEPT !.adf2 = res.file, !.i = 1, !.pc = "diff_records"]
    ELSE ToolErr(t, res)

\* make_qso_sig can index the record
HasSig(record) ==
    /\ QSO_DATE \in DOMAIN record.adir_field_values
    /\ CALL \in DOMAIN record.adir_field_values

\* make_qso_sig, without the words around the two values
make_qso_sig(record) ==
    <<record.adir_field_values[QSO_DATE], record.adir_field_values[CALL]>>

\* lines 103-111 from record j of the second file on: the index of the
\* first record with the signature sig1, 0 if there is none, -1 if
\* make_qso_sig panics on the way
RECURSIVE DiffFind(_, _, _)
DiffFind(recs, j, sig1) ==
    IF j > Len(recs) THEN 0
    ELSE IF ~HasSig(recs[j]) THEN -1
    ELSE IF make_qso_sig(recs[j]) = sig1 THEN j
    ELSE DiffFind(recs, j + 1, sig1)

HasGrid(record) == GRIDSQUARE \in DOMAIN record.adir_field_values

\* lines 122-146: the two records differ in their grid square
GridDiffers(r1, r2) ==
    IF ~HasGrid(r1) THEN HasGrid(r2)
    ELSE IF ~HasGrid(r2) THEN TRUE
    ELSE r1.adir_field_values[GRIDSQUARE] # r2.adir_field_values[GRIDSQUARE]

\* lines 113-146, found is what the search returned
DiffFound(t, r1, found) ==
    IF found = -1 THEN ToolPanic(t)
    ELSE IF found = 0
    THEN [t EXCEPT !.nunmatched1 = @ + 1,
                   !.out = Append(@, [line |-> "only in", rec |-> t.i]),
                   !.i = @ + 1]
    ELSE IF GridDiffers(r1, t.adf2.adif_records[found])
    THEN [t EXCEPT !.nmatched = @ + 1,
                   !.ndiff = @ + 1,
                   !.out = Append(@, [line |-> "grid squares differ",
                                      rec |-> t.i]),
                   !.i = @ + 1]
    ELSE [t EXCEPT !.nmatched = @ + 1, !.i = @ + 1]

\* lines 97-101, then the search
DiffRecord(t, r1) ==
    IF ~HasSig(r1) THEN ToolPanic(t)
    ELSE DiffFound(t, r1, DiffFind(t.adf2.adif_records, 1, make_qso_sig(r1)))

\* one iteration of the loop of lines 97-147, or lines 149-154 after it
DiffOne(t) ==
    IF t.i > Len(t.adf1.adif_records)
    THEN ToolOk([t EXCEPT !.out = @ \o <<[line |-> "records only in",
                                          rec |-> t.nunmatched1],
                                         [line |-> "matched records",
                                          rec |-> t.nmatched],
                                         [line |-> "with differences",
                                          rec |-> t.ndiff]>>])
    ELSE DiffRecord(t, t.adf1.adif_records[t.i])

\* fatal (adif_dump.rs lines 92-96, adif_diff.rs lines 40-44)
fatal(t, message) ==
    [t EXCEPT !.stderr = Append(@, message), !.exited = TRUE, !.status = 1,
              !.pc = "exited"]

\* main's match on what the tool's function returned (adif_dump.rs lines
\* 79-82, adif_diff.rs lines 27-30)
MainMatch(t) ==
    IF t.ok THEN [t EXCEPT !.exited = TRUE, !.pc = "exited"]
    ELSE fatal(t, t.errmsg)


----------------------------------------------------------------------------
(* Inputs: runs of the two tools on small files (SpecTool).                *)

\* `<NAME:1>` and the byte v
OneByteField(name, v) ==
    <<CH_LAB>> \o name \o <<CH_COLON, 49, CH_RAB, v>>

EndOfRecord == <<CH_LAB>> \o ADI_STR_EOR \o <<CH_RAB>>

\* call=a qso_date=1
FileOneQso ==
    OneByteField(CALL, 97) \o OneByteField(QSO_DATE, 49) \o EndOfRecord

\* call=a qso_date=1 gridsquare=g, then call=b qso_date=1
FileTwoQsos ==
    OneByteField(CALL, 97) \o OneByteField(QSO_DATE, 49)
    \o OneByteField(GRIDSQUARE, 103) \o EndOfRecord
    \o OneByteField(CALL, 98) \o OneByteField(QSO_DATE, 49) \o EndOfRecord

\* a record without the fields of a signature
FileNoSig == OneByteField(<<98, 97, 110, 100>>, 120) \o EndOfRecord

\* a record with call twice
FileDuplicate ==
    OneByteField(CALL, 97) \o OneByteField(CALL, 98) \o EndOfRecord

\* a header that never ends
FileOpenHeader == <<112>>

\* `<call:1:S>a<eor>`
FileTyped ==
    <<CH_LAB>> \o CALL \o <<CH_COLON, 49, CH_COLON, 83, CH_RAB, 97>>
    \o EndOfRecord

\* a value that is not UTF-8
FileBadUtf8 ==
    OneByteField(CALL, 255) \o OneByteField(QSO_DATE, 49) \o EndOfRecord

\* a record that never ends
FileOpenRecord == OneByteField(CALL, 97)

ToolFiles ==
    {<<>>, FileOneQso, FileTwoQsos, FileNoSig, FileDuplicate, FileOpenHeader,
     FileTyped, FileBadUtf8, FileOpenRecord}

ToolPlans ==
    [name : {"dump", "diff"}, f1 : ToolFiles, f2 : ToolFiles, r : ReadSizes]

SpecTool_Init ==
    \E p \in ToolPlans :
        /\ p.name = "dump" => p.f2 = <<>>
        /\ plan = p
        /\ InitAt([Start(<<>>, DEFAULT_BUF_SIZE) EXCEPT !.pc = "done"])
        /\ adi = NoFile
        /\ adif_result = NoAdif
        /\ tool = ToolStart(p.name, IF p.name = "dump" THEN "dump_file"
                                    ELSE "diff_parse1")

parse_vars ==
    <<aps_source, aps_tokens, aps_error, aps_done, pc, ret, lab_ret,
      header, header_content, header_fields, records, adir_fields,
      fieldname, fieldlength, fieldvalue, returned, consumed, result,
      plan, adi, adif_result>>

DumpFile ==
    /\ tool.pc = "dump_file"
    /\ tool' = DumpParsed(tool, adif_parse("f1", plan.f1, plan.r))
    /\ UNCHANGED parse_vars

DumpRecords ==
    /\ tool.pc = "dump_records"
    /\ tool' = DumpOne(tool)
    /\ UNCHANGED parse_vars

DiffParseFirst ==
    /\ tool.pc = "diff_parse1"
    /\ tool' = DiffFirstParsed(tool, adif_parse("f1", plan.f1, plan.r))
    /\ UNCHANGED parse_vars

DiffParseSecond ==
    /\ tool.pc = "diff_parse2"
    /\ tool' = DiffSecondParsed(tool, adif_parse("f2", plan.f2, plan.r))
    /\ UNCHANGED parse_vars

DiffRecords ==
    /\ tool.pc = "diff_records"
    /\ tool' = DiffOne(tool)
    /\ UNCHANGED parse_vars

Main ==
    /\ tool.pc = "main"
    /\ tool' = MainMatch(tool)
    /\ UNCHANGED parse_vars

NextTool ==
    \/ DumpFile
    \/ DumpRecords
    \/ DiffParseFirst
    \/ DiffParseSecond
    \/ DiffRecords
    \/ Main

SpecTool == SpecTool_Init /\ [][NextTool]_vars

----------------------------------------------------------------------------
(* Claims about the tools (SpecTool).                                      *)

\* what adif_parse returns for the file
Parsed(label, data) == adif_parse(label, data, plan.r)

ParseFails(label, data) == Parsed(label, data).kind \notin {"Ok", "panic"}

\* the run ends with the message on the standard error and status 1,
\* whenever it has ended
ExitsWith(message) ==
    /\ tool.pc # "panicked"
    /\ tool.pc = "exited" =>
           /\ tool.exited
           /\ tool.status = 1
           /\ tool.stderr = <<message>>

\* C32: when parsing a file fails, the dump tool and the diff tool return
\* the error message without printing or comparing any record of any
\* file, and main exits with status 1; in the diff tool also when the
\* first file parsed and the second one failed.
C32_ToolsStopAtError ==
    /\ ParseFails("f1", plan.f1) =>
           /\ tool.out = <<>>
           /\ tool.i = 0
           /\ ExitsWith(Parsed("f1", plan.f1))
    /\ (/\ plan.name = "diff"
        /\ Parsed("f1", plan.f1).kind = "Ok"
        /\ ParseFails("f2", plan.f2)) =>
           /\ tool.out = <<>>
           /\ tool.i = 0
           /\ ExitsWith(Parsed("f2", plan.f2))

\* the diff tool has exited after its first file parsed to two records
\* and its second one had a duplicate field
W32_SecondFileFailed ==
    /\ plan.name = "diff"
    /\ tool.pc = "exited"
    /\ Len(tool.adf1.adif_records) = 2
    /\ tool.status = 1
    /\ tool.errmsg.msg = "duplicate value for field"
    /\ tool.out = <<>>

\* the dump tool has exited after a parse that met a type tag
W32_DumpFailed ==
    /\ plan.name = "dump"
    /\ tool.pc = "exited"
    /\ tool.status = 1
    /\ tool.errmsg.kind = "ADIF_ENOT_YET_IMPLEMENTED"


----------------------------------------------------------------------------
(* Claims about the lookahead queue and the order of the checks.           *)

\* the tokens that adi_parse_data_specifier looks at before it consumes:
\* offsets 0 to 4
MaxLookahead == 5

\* C33: the lookahead queue never holds more than five tokens in any
\* reachable state of a parse, for every input
\* (between the steps, and after the peeks of a step before it consumes)
C33_QueueAtMostFive ==
    /\ Len(aps_tokens) <= MaxLookahead
    /\ pc = "data_specifier" =>
           Len(SpecifierPeeks(PeekState(State, 0)).aps_tokens)
               <= MaxLookahead
    /\ pc = "record" => Len(ThreePeeks(State).aps_tokens) <= MaxLookahead

\* the queue holds "<" name ":" length ">" after the peeks of a specifier
\* that was then refused
W33_FiveTokensQueued ==
    /\ Len(aps_tokens) = MaxLookahead
    /\ aps_tokens[1] = ADI_TOK_LAB
    /\ aps_tokens[3] = ADI_TOK_COLON
    /\ aps_tokens[MaxLookahead] = ADI_TOK_COLON
    /\ result.kind = "ADIF_ENOT_YET_IMPLEMENTED"


\* C34: the result of adi_parse depends only on the input bytes and not
\* on how the buffered source splits them across refills: any two ways of
\* chunking an input give the same file or the same error.
C34_ChunkingIndependent ==
    pc = "done" =>
        \A r \in ReadSizes : Run(aps_source.data, r) = result


\* adi_parse_data_specifier returns an error from its peeks or its checks
SpecifierFails ==
    /\ pc = "data_specifier"
    /\ result'.kind \in ErrorKinds

\* C35: when adi_parse_data_specifier fails while checking the tokens at
\* offsets 1 to 4 (name, colon, length, terminator), it has consumed no
\* token: the queue keeps every token it held at entry, in order, with
\* the left bracket still at the front.
C35_FailedChecksConsumeNothing ==
    [][SpecifierFails =>
           /\ IsPrefix(aps_tokens, aps_tokens')
           /\ Len(aps_tokens') > 0
           /\ aps_tokens'[1] = ADI_TOK_LAB
           /\ consumed' = consumed]_vars

\* a record's second specifier was refused as malformed, with the five
\* tokens peeked still in the queue
W35_RefusedWithHeadQueued ==
    /\ pc = "done"
    /\ result.kind = "ADIF_EBADINPUT"
    /\ ret = "record"
    /\ Len(adir_fields) = 1
    /\ Len(aps_tokens) = MaxLookahead
    /\ aps_tokens[1] = ADI_TOK_LAB
    /\ aps_tokens[3] = ADI_TOK_COLON


\* the checks of a data specifier in the order name, colon, length,
\* terminator, each with the error it gives when it fails
OrderedChecks(name, t_colon, fieldlength_str, t_rab) ==
    <<[ok |-> name.ok, kind |-> "ADIF_EBADINPUT", msg |-> name.msg],
      [ok |-> t_colon = ADI_TOK_COLON, kind |-> "ADIF_EBADINPUT",
       msg |-> "expected colon"],
      [ok |-> fieldlength_str.ok, kind |-> "ADIF_EBADINPUT",
       msg |-> fieldlength_str.msg],
      [ok |-> ParseUsize(fieldlength_str.str) >= 0,
       kind |-> "ADIF_EBADINPUT", msg |-> "parsing data specifier length"],
      [ok |-> ParseUsize(fieldlength_str.str) <= ADI_MAX_FIELDLEN,
       kind |-> "ADIF_EBADINPUT", msg |-> "max supported size"],
      [ok |-> t_rab # ADI_TOK_COLON, kind |-> "ADIF_ENOT_YET_IMPLEMENTED",
       msg |-> "typed values are not supported"],
      [ok |-> t_rab = ADI_TOK_RAB, kind |-> "ADIF_EBADINPUT",
       msg |-> "expected right bracket"]>>

\* the first check that fails decides the error; when none fails the
\* function goes on to the value
FirstFailureDecides(checks) ==
    IF \E i \in 1..Len(checks) : ~checks[i].ok
    THEN \E i \in 1..Len(checks) :
             /\ ~checks[i].ok
             /\ \A j \in 1..(i - 1) : checks[j].ok
             /\ result' = Err(checks[i].kind, checks[i].msg)
    ELSE pc' = "value" /\ result' = result

\* a4 is the state after the peeks of adi_parse_data_specifier
CheckedInOrder(a4) ==
    (~Stopped(a4) /\ PeekToken(a4, 0) = ADI_TOK_LAB) =>
        FirstFailureDecides(
            OrderedChecks(adi_token_string(PeekToken(a4, 1)),
                          PeekToken(a4, 2),
                          adi_token_string(PeekToken(a4, 3)),
                          PeekToken(a4, 4)))

\* what follows the length in the input of the plan
AfterLength(p) == p.term \o p.lv.val \o p.pad

\* the specifier of the plan is written with a type tag: a colon follows
\* the length
TypedPlan(p) == Len(AfterLength(p)) > 0 /\ AfterLength(p)[1] = CH_COLON

\* the name and the length of the plan are valid
ValidNameAndLength(p) ==
    /\ \A i \in 1..Len(p.name.written) : p.name.written[i] < 128
    /\ ParseUsize(p.lv.lenstr) >= 0
    /\ ParseUsize(p.lv.lenstr) <= ADI_MAX_FIELDLEN

\* C36: the checks of adi_parse_data_specifier are made in the order
\* name, colon, length, terminator, and the first that fails decides the
\* error: a specifier with a type tag whose length is unparsable or above
\* the maximum fails with malformed-input, and not-yet-implemented is
\* returned only when name, colon and length are all valid.
C36_ChecksInOrder ==
    /\ [][pc = "data_specifier"
              => CheckedInOrder(SpecifierPeeks(PeekState(State, 0)))]_vars
    /\ [](pc = "done" =>
            /\ result.kind = "ADIF_ENOT_YET_IMPLEMENTED"
                  => TypedPlan(plan) /\ ValidNameAndLength(plan)
            /\ (TypedPlan(plan) /\ ~ValidNameAndLength(plan))
                  => result.kind = "ADIF_EBADINPUT"
            /\ (WholeRead /\ TypedPlan(plan) /\ ValidNameAndLength(plan))
                  => result.kind = "ADIF_ENOT_YET_IMPLEMENTED")

\* `<Call:x:S>` was refused for its length
W36_TypedWithBadLength ==
    /\ pc = "done"
    /\ WholeRead
    /\ TypedPlan(plan)
    /\ plan.lv.lenstr = <<120>>
    /\ plan.name.written = <<67, 97, 108, 108>>
    /\ result = Err("ADIF_EBADINPUT", "parsing data specifier length")


\* the bytes of b that precede its first "<"
RECURSIVE BeforeFirstLab(_)
BeforeFirstLab(b) ==
    IF Len(b) = 0 \/ b[1] = CH_LAB THEN <<>>
    ELSE <<b[1]>> \o BeforeFirstLab(Tail(b))

----------------------------------------------------------------------------
(* Inputs: files that hold an end-of-header marker, most of them after a   *)
(* first byte "<" (SpecNoText).                                            *)

\* a header without text or with the text "p", written before the
\* records or after them
NoTextPlans ==
    [hashdr : {TRUE}, text : {<<>>, <<112>>}, nh : 0..MaxHeaderFields,
     mcase : {0, 5}, nr : 0..MaxRecords, nf : 0..MaxFields, style : Styles,
     headerlast : BOOLEAN]

RenderNoText(p) ==
    IF p.headerlast
    THEN RenderRecords(p, p.nr, p.mcase) \o RenderHeader(p, p.mcase)
    ELSE Render(p)

SpecNoText_Init ==
    \E p \in NoTextPlans, r \in ReadSizes :
        /\ plan = p
        /\ InitAt(Start(RenderNoText(p), r))
        /\ adi = NoFile
        /\ adif_result = NoAdif
        /\ tool = NoTool

SpecNoText == SpecNoText_Init /\ [][Next]_vars

\* C38: an input whose first byte is "<" is never given to the header
\* parser, so an end-of-header marker anywhere in such an input (a header
\* made only of specifiers, or `<eoh>` alone) reaches the record parser
\* and makes adi_parse fail with a malformed-input error.
C38_MarkerWithoutTextFails ==
    StartsAtLab(aps_source.data) =>
        /\ pc # "header"
        /\ ~header.some
        /\ header_fields = <<>>
        /\ pc = "done" =>
               /\ result.kind = "ADIF_EBADINPUT"
               /\ ~result.file.adi_header.some

\* `<eoh>` alone was refused by the record parser
W38_EohAloneRefused ==
    /\ pc = "done"
    /\ aps_source.data = <<CH_LAB>> \o ADI_STR_EOH \o <<CH_RAB>>
    /\ WholeRead
    /\ ret = "record"
    /\ result = Err("ADIF_EBADINPUT", "expected colon")

\* a header made of one specifier: the specifier became a record field
\* and the marker was refused
W38_SpecifierThenMarker ==
    /\ pc = "done"
    /\ ~plan.headerlast
    /\ plan.nh = 1
    /\ Len(adir_fields) = 1
    /\ result = Err("ADIF_EBADINPUT", "expected colon")


----------------------------------------------------------------------------
(* Claims about duplicate header fields (SpecAdif).                        *)

\* the header fields of the file, none without a header
HeaderFieldsOf(a) ==
    IF a.adi_header.some THEN a.adi_header.adih_fields ELSE <<>>

\* two header fields bear the same reserved canonical name
DuplicateReserved(fields) ==
    \E i, j \in 1..Len(fields) :
        /\ i < j
        /\ HeaderSlot(fields[i].adif_name_canon) # ""
        /\ fields[i].adif_name_canon = fields[j].adif_name_canon

\* field k is the last one of its canonical name
LastOfName(fields, k) ==
    \A j \in (k + 1)..Len(fields) :
        fields[j].adif_name_canon # fields[k].adif_name_canon

\* every header field under a reserved name can be decoded
ReservedDecodable(fields) ==
    \A k \in 1..Len(fields) :
        HeaderSlot(fields[k].adif_name_canon) # ""
            => adif_string(fields[k]).kind = "Ok"

\* the same file without its header
WithoutHeader(a) == [a EXCEPT !.adi_header = NoHeader]

\* C39: duplicate detection applies to records only: when a header holds
\* several fields with the same reserved canonical name, adif_parse_adi
\* reports no error and the metadata slot holds the value of the last
\* such field in header order.
C39_HeaderDuplicatesLastWins ==
    (adif_done /\ DuplicateReserved(HeaderFieldsOf(adi))) =>
        /\ adif_result.msg # "duplicate value for field"
              \/ SomeDuplicate(adi)
        /\ (/\ ReservedDecodable(HeaderFieldsOf(adi))
            /\ adif_parse_adi(plan.label, WithoutHeader(adi)).kind = "Ok")
              => adif_result.kind = "Ok"
        /\ adif_result.kind = "Ok" =>
              \A k \in 1..Len(HeaderFieldsOf(adi)) :
                  (/\ HeaderSlot(HeaderFieldsOf(adi)[k].adif_name_canon) # ""
                   /\ LastOfName(HeaderFieldsOf(adi), k))
                      => adif_result.file[
                             HeaderSlot(
                                 HeaderFieldsOf(adi)[k].adif_name_canon)]
                           = <<HeaderFieldsOf(adi)[k].adif_bytes>>

\* ADIF_VER=3 then adif_ver=4: the version is "4"
W39_SecondVersionStored ==
    /\ adif_done
    /\ adif_result.kind = "Ok"
    /\ Len(HeaderFieldsOf(adi)) = 2
    /\ HeaderFieldsOf(adi)[1].adif_bytes = <<51>>
    /\ HeaderFieldsOf(adi)[1].adif_name_canon = ADIF_HEADER_ADIF_VER
    /\ HeaderFieldsOf(adi)[2] = Mk(ADIF_HEADER_ADIF_VER, <<52>>, NoType)
    /\ adif_result.file.adif_adif_version = <<<<52>>>>


----------------------------------------------------------------------------
(* Claims about the end of the token stream (SpecIo).                      *)

\* the queue q is what is left of the queue p after some tokens were
\* removed from its front
IsSuffix(q, p) ==
    Len(q) <= Len(p) /\ SubSeq(p, Len(p) - Len(q) + 1, Len(p)) = q

\* the end-of-file tokens of the queue
EofPlaces(q) == { i \in 1..Len(q) : q[i] = ADI_TOK_EOF }

\* C40: the tokenizer is never invoked after it has returned
\* end-of-stream: over a whole parse the end-of-stream token is enqueued
\* at most once, and aps_done, once set, is never cleared.
C40_NothingReadAfterEof ==
    /\ [][aps_done =>
              /\ aps_done'
              /\ IsSuffix(aps_tokens', aps_tokens)
              /\ aps_source' = aps_source]_vars
    /\ [](/\ Cardinality(EofPlaces(aps_tokens)) <= 1
          /\ EofPlaces(aps_tokens) \subseteq {Len(aps_tokens)}
          /\ EofPlaces(aps_tokens) # {} => aps_done)

\* the record loop has peeked at the offsets 1 and 2 with the end-of-file
\* token alone in the queue, and the queue still holds that one token
W40_PeekedPastEof ==
    /\ pc = "done"
    /\ aps_done
    /\ aps_tokens = <<ADI_TOK_EOF>>
    /\ Len(adir_fields) > 0
    /\ Panicked(State)

============================================================================
